---- MODULE Spec2Model ----
(***************************************************************************)
(* The webhook service of vketteni/testbox (src/webhook-service/server.js): *)
(* the subscription registry, the publisher (POST /webhook) with its       *)
(* concurrent fan-out, the delivery client notifySubscriber with its       *)
(* health tracking, the replay endpoint and the start-up code that reloads *)
(* the persisted subscriptions; and its consumer webhook-sync              *)
(* (src/solutions/webhook-sync/index.js): the webhook endpoint, the queue  *)
(* of sync-object jobs and their processor.                                *)
(*                                                                         *)
(* JSON strings are sequences of one-character strings, so that            *)
(* String.prototype.startsWith and toLowerCase are computed as JavaScript  *)
(* computes them.  A field that is absent from a JSON body is the value    *)
(* `undefined`.                                                            *)
(***************************************************************************)
EXTENDS Integers, Sequences, FiniteSets, TLC

(***************************************************************************)
(* Bounds of the model.                                                    *)
(***************************************************************************)
\* number of POST /subscriptions that are accepted over a behaviour
MaxSubs == 3
\* the same, where a subscription is followed up to its deactivation
MaxHealthSubs == 2
\* number of POST /webhook requests in flight at the same time
MaxCalls == 2
\* the same, where a subscription is followed up to its deactivation
MaxHealthCalls == 1
\* errorCount is followed up to this value where deactivation is not the subject
MaxFailures == 1
\* successCount is followed up to this value
MaxSuccess == 1
\* number of restarts of the webhook service over a behaviour
MaxRestarts == 1
\* successCount and errorCount are followed up to this value where concurrent
\* publishes count on the same subscription
MaxCount == 2
\* number of jobs the consumer queues over a behaviour
MaxJobs == 2
\* number of webhooks the consumer's queue refuses
MaxAddFailures == 1
\* number of companies the simulator starts with, and may come to hold
SampleSize == 1
MaxCompanies == 3
\* number of company mutations the simulator applies
MaxMutations == 3
\* the time of day at which the clock stops
MaxClock == 2
\* number of runs direct-polling starts
MaxRuns == 2

(***************************************************************************)
(* Strings.                                                                *)
(***************************************************************************)
undefined == <<"undefined">>

star == <<"*">>
company == <<"c","o","m","p","a","n","y">>
COMPANY == <<"C","O","M","P","A","N","Y">>
companies == <<"c","o","m","p","a","n","i","e","s">>
company2 == <<"c","o","m","p","a","n","y","2">>
contact == <<"c","o","n","t","a","c","t">>
contactStar == <<"c","o","n","t","a","c","t",".","*">>
companyPropertyChange ==
    <<"c","o","m","p","a","n","y",".","p","r","o","p","e","r","t","y","C","h","a","n","g","e">>
companyCreation ==
    <<"c","o","m","p","a","n","y",".","c","r","e","a","t","i","o","n">>
id42 == <<"4","2">>
evt1 == <<"e","1">>
webhookSyncUrl == <<"h","t","t","p",":","/","/","w","e","b","h","o","o","k","-","s","y","n","c">>
\* the secret webhook-sync registers with, and the secret of a subscription
\* registered without one
webhookSecret == <<"w","e","b","h","o","o","k","-","s","y","n","c","-","s","e","c","r","e","t">>
otherSecret == <<"d","e","f","a","u","l","t">>

UpperCase == <<"A","B","C","D","E","F","G","H","I","J","K","L","M",
               "N","O","P","Q","R","S","T","U","V","W","X","Y","Z">>
LowerCase == <<"a","b","c","d","e","f","g","h","i","j","k","l","m",
               "n","o","p","q","r","s","t","u","v","w","x","y","z">>

\* String.prototype.toLowerCase on one character
lowerChar(c) ==
    IF \E i \in 1..Len(UpperCase) : UpperCase[i] = c
    THEN LowerCase[CHOOSE i \in 1..Len(UpperCase) : UpperCase[i] = c]
    ELSE c

\* mutant: the string is compared as it was sent
toLowerCaseOmitted(s) == s

\* String.prototype.toLowerCase
toLowerCase(s) == [i \in 1..Len(s) |-> lowerChar(s[i])]

\* mutant: receiver and argument are swapped
startsWithSwapped(s, p) == Len(s) <= Len(p) /\ SubSeq(p, 1, Len(s)) = s

\* s.startsWith(p)
startsWith(s, p) == Len(p) <= Len(s) /\ SubSeq(s, 1, Len(p)) = p

\* JavaScript truthiness of a string-or-undefined field: !v is true for an
\* absent field and for the empty string
truthy(v) == v # undefined /\ v # <<>>

(***************************************************************************)
(* Request bodies.                                                         *)
(***************************************************************************)
\* the `events` field of a POST /subscriptions body: absent, a non-empty
\* string (truthy, not an array) or an array of patterns
noEvents == [kind |-> "undefined", items |-> <<>>]
stringEvents == [kind |-> "string", items |-> <<>>]
arrayEvents(items) == [kind |-> "array", items |-> items]

\* pattern lists a subscriber registers with
PatternLists == { <<star>>, <<contact>> }

\* the pattern lists the match test is exercised with
MatchPatternLists ==
    { <<star>>, <<company>>, <<contact>>, <<companyPropertyChange>>, <<contactStar>>,
      <<COMPANY>>, <<contact, companyCreation>> }

Body(url, events) == [url |-> url, events |-> events, secret |-> webhookSecret]

InvalidBodies ==
    { Body(undefined, arrayEvents(<<star>>)),
      Body(webhookSyncUrl, noEvents),
      Body(webhookSyncUrl, stringEvents) }

RegisterBodies ==
    { Body(webhookSyncUrl, arrayEvents(l)) : l \in PatternLists \cup {<<>>} }
        \cup InvalidBodies

MatchBodies == { Body(webhookSyncUrl, arrayEvents(l)) : l \in MatchPatternLists }

\* change events sent to POST /webhook
Event(t, o, i, e) == [eventType |-> t, objectType |-> o, objectId |-> i, eventId |-> e]

\* the simulator sends objectType.toUpperCase()
propertyChangeEvent == Event(companyPropertyChange, COMPANY, id42, evt1)

InvalidEvents ==
    { Event(undefined, COMPANY, id42, evt1),
      Event(companyCreation, undefined, id42, evt1),
      Event(companyCreation, COMPANY, undefined, evt1),
      Event(companyCreation, <<>>, id42, evt1) }

Events == { propertyChangeEvent } \cup InvalidEvents

\* the events the match test is exercised with
MatchEvents ==
    { Event(companyPropertyChange, company, id42, evt1),
      Event(companyPropertyChange, COMPANY, id42, evt1),
      Event(companyCreation, company, id42, undefined),
      Event(companyPropertyChange, companies, id42, undefined),
      Event(companyCreation, company2, id42, undefined) }

NoEvent == Event(undefined, undefined, undefined, undefined)

\* event ids asked of POST /replay/:eventId
ReplayIds == { evt1, <<"e","2">> }

SubIds == 1..MaxSubs
CallIds == 1..MaxCalls
HealthCallIds == 1..MaxHealthCalls

(***************************************************************************)
(* State.                                                                  *)
(***************************************************************************)
VARIABLES
    subscribers,        \* the in-memory Map: subscription id -> subscription
    redisSubscriptions, \* the Redis hash webhook:subscriptions: id -> JSON
    redisEvents,        \* events held by an unexpired key webhook:events:*
    calls,              \* the POST /webhook requests in flight
    phase,              \* start-up code: "connecting", "loading", then "ready"
    existingSubscriptions, \* the answer to hGetAll the start-up code waits for
    nextId,             \* number of subscription ids issued so far
    restarts,           \* number of restarts so far
    response,           \* the HTTP response being sent, if any
    replay,             \* the POST /replay/:eventId request in flight
    everDeactivated,    \* history: ids that notifySubscriber has deactivated
    attempts,           \* history: per id of the registry, the deliveries of the
                        \* running service that were delivered and that failed
    ledger,             \* history: the subscriptions whose registration was
                        \* answered 201 and whose deletion was not answered 200,
                        \* and, while the service starts up, the number of ids
                        \* issued before it was restarted
    jobs,               \* webhook-sync: the jobs of the queue `webhook processing`
    syncResponse,       \* webhook-sync: the answer to the last POST /webhook
    processingErrors,   \* webhook-sync: the counter webhook_sync_errors_total
    subscriber,         \* webhook-sync: is the process up, and the id of the
                        \* subscription it has registered
    crmCompanies,       \* CRM simulator: the array `companies`
    simulator,          \* CRM simulator: the request being served, and history:
                        \* the mutations applied and the notifications posted
    clock,              \* the time of day that new Date() reads
    poller              \* direct-polling: isRunning, the run in progress, the
                        \* sync state, and history: what was pushed

vars == <<subscribers, redisSubscriptions, redisEvents, calls, phase,
          existingSubscriptions, nextId, restarts, response, replay,
          everDeactivated, attempts, ledger, jobs, syncResponse,
          processingErrors, subscriber, crmCompanies, simulator, clock,
          poller>>

\* the state of the webhook service and the state of the consumer webhook-sync
serviceVars == <<subscribers, redisSubscriptions, redisEvents, calls, phase,
                 existingSubscriptions, nextId, restarts, response, replay,
                 everDeactivated, attempts, ledger>>
consumerVars == <<jobs, syncResponse, processingErrors>>
\* the state of the CRM simulator, of direct-polling, and of the consumer's
\* process
crmVars == <<crmCompanies, simulator, clock>>
otherVars == <<subscriber, crmVars, poller>>

\* errorCount above which notifySubscriber deactivates a subscription
ErrorThreshold == 10

NoResults == [id \in SubIds |-> "none"]
NoOutcomes == [id \in SubIds |-> [kind |-> "none", status |-> 0]]
IdleCall ==
    [pc |-> "idle", event |-> NoEvent, results |-> NoResults,
     outcomes |-> NoOutcomes, detached |-> {}]

\* no delivery has settled
NoAttempts == [delivered |-> [id \in SubIds |-> 0], failed |-> [id \in SubIds |-> 0]]

\* status 0: the request is never answered
Response(op, status) ==
    [op |-> op, status |-> status, notificationsSent |-> 0, notificationsFailed |-> 0,
     event |-> NoEvent, subscriptionId |-> 0]

NoResponse == Response("none", 0)

IdleReplay == [pc |-> "idle", eventId |-> undefined, keys |-> {}]

\* nothing has been registered, the service has not been restarted
NoLedger == [registered |-> << >>, issued |-> 0]

\* webhook-sync has answered no request; no error has been counted
NoSyncResponse == [status |-> 0, queued |-> FALSE, signed |-> FALSE]
NoErrors == [job_failure |-> 0, sync_error |-> 0, webhook_error |-> 0]

\* webhook-sync is not running and has registered nothing
NoSubscriber == [up |-> FALSE, subscriptionId |-> 0]

\* the ids uuidv4 gives to the companies, in the order they are created
id43 == <<"4","3">>
id44 == <<"4","4">>
id45 == <<"4","5">>
uuids == <<id42, id43, id44, id45>>

\* a company of the store: its id, updatedAt, and, for its properties, the
\* number of updates applied to them
Company(id, updatedAt, version) ==
    [id |-> id, updatedAt |-> updatedAt, version |-> version]

\* generateSampleData: the companies the simulator starts with, updated in
\* the past
sampleData == [i \in 1..SampleSize |-> Company(uuids[i], 0, 0)]

\* the simulator serves no request; nothing has been changed or posted
NoSimulator ==
    [status |-> 0, mutations |-> 0, posts |-> 0, lost |-> 0,
     event |-> [eventType |-> undefined, objectType |-> undefined,
                objectId |-> undefined, properties |-> undefined],
     inBatch |-> FALSE, inputs |-> << >>]

\* lastSyncTime: null
null == -1

\* no run of direct-polling.  pc is where syncCompanies stands; lastState is
\* the sync state read when the run began; page is the filtered page about to
\* be pushed; history: visited, the companies fetched, as they were fetched;
\* threw, has a fetch or a push failed
NoRun ==
    [pc |-> "none", lastState |-> [lastSyncTime |-> null, totalProcessed |-> 0],
     after |-> undefined, page |-> << >>, hasMore |-> TRUE,
     processed |-> 0, threw |-> FALSE, visited |-> << >>]

\* direct-polling has not been started and no sync state is stored.  History:
\* active, the runs in progress; runs, the runs started; pushed, the version
\* of each company pushed last; owed, the companies that were updated while
\* the last saved run was in progress, after it had fetched them
NoPoller ==
    [batchSize |-> 0, isRunning |-> FALSE, active |-> 0, runs |-> 0,
     run |-> NoRun,
     lastSyncState |-> [lastSyncTime |-> null, totalProcessed |-> 0],
     status |-> 0, pushed |-> << >>, owed |-> << >>]

Init ==
    /\ subscribers = << >>
    /\ redisSubscriptions = << >>
    /\ redisEvents = {}
    /\ calls = [c \in CallIds |-> IdleCall]
    /\ phase = "connecting"
    /\ existingSubscriptions = << >>
    /\ nextId = 0
    /\ restarts = 0
    /\ response = NoResponse
    /\ replay = IdleReplay
    /\ everDeactivated = {}
    /\ attempts = NoAttempts
    /\ ledger = NoLedger
    /\ jobs = << >>
    /\ syncResponse = NoSyncResponse
    /\ processingErrors = NoErrors
    /\ subscriber = NoSubscriber
    /\ crmCompanies = sampleData
    /\ simulator = NoSimulator
    /\ clock = 0
    /\ poller = NoPoller

Put(f, k, v) == [x \in DOMAIN f \cup {k} |-> IF x = k THEN v ELSE f[x]]
Remove(f, k) == [x \in DOMAIN f \ {k} |-> f[x]]

(***************************************************************************)
(* POST /subscriptions, GET /subscriptions, DELETE /subscriptions/:id      *)
(***************************************************************************)
\* the test !url || !events || !Array.isArray(events), negated
validSubscription(body) ==
    /\ truthy(body.url)
    /\ body.events.kind # "undefined"
    /\ body.events.kind = "array"

newSubscription(id, body) ==
    [id |-> id, url |-> body.url, events |-> body.events.items,
     secret |-> body.secret, active |-> TRUE,
     lastNotified |-> FALSE, successCount |-> 0, errorCount |-> 0]

\* what a subscription was registered with
registration(subscription) ==
    [id |-> subscription.id, url |-> subscription.url,
     events |-> subscription.events, secret |-> subscription.secret]

postSubscriptions(body) ==
    /\ response = NoResponse
    /\ IF ~validSubscription(body)
       THEN /\ response' = Response("register", 400)
            /\ UNCHANGED <<subscribers, redisSubscriptions, nextId, ledger>>
       ELSE /\ nextId' = nextId + 1
            /\ subscribers' = Put(subscribers, nextId', newSubscription(nextId', body))
            /\ redisSubscriptions' =
                   Put(redisSubscriptions, nextId', newSubscription(nextId', body))
            /\ response' =
                   [Response("register", 201) EXCEPT !.subscriptionId = nextId']
            /\ ledger' =
                   [ledger EXCEPT !.registered =
                       Put(@, nextId', registration(newSubscription(nextId', body)))]
    /\ UNCHANGED <<redisEvents, calls, phase, existingSubscriptions, restarts,
                   replay, everDeactivated,
                   attempts>>
    /\ UNCHANGED consumerVars

\* POST /subscriptions, sent by any client
Register(body) ==
    /\ postSubscriptions(body)
    /\ UNCHANGED otherVars

List ==
    /\ response = NoResponse
    /\ response' = Response("list", 200)
    /\ UNCHANGED <<subscribers, redisSubscriptions, redisEvents, calls, phase,
                   existingSubscriptions, nextId, restarts,
                   replay, everDeactivated,
                   attempts>>
    /\ UNCHANGED ledger
    /\ UNCHANGED consumerVars
    /\ UNCHANGED otherVars

\* a delivery in flight keeps its reference to the subscription object: once
\* the Map no longer holds that object the delivery updates a detached object
Detach(cs, ids) ==
    [c \in CallIds |->
        [cs[c] EXCEPT !.detached =
            @ \cup {id \in ids : cs[c].results[id] = "pending"}]]

deleteSubscriptions(id) ==
    /\ response = NoResponse
    /\ IF id \in DOMAIN subscribers
       THEN /\ subscribers' = Remove(subscribers, id)
            /\ redisSubscriptions' =
                   IF id \in DOMAIN redisSubscriptions
                   THEN Remove(redisSubscriptions, id) ELSE redisSubscriptions
            /\ calls' = Detach(calls, {id})
            /\ attempts' = [attempts EXCEPT !.delivered[id] = 0, !.failed[id] = 0]
            /\ response' = [Response("delete", 200) EXCEPT !.subscriptionId = id]
            /\ ledger' =
                   [ledger EXCEPT !.registered =
                       IF id \in DOMAIN @ THEN Remove(@, id) ELSE @]
       ELSE /\ response' = [Response("delete", 404) EXCEPT !.subscriptionId = id]
            /\ UNCHANGED <<subscribers, redisSubscriptions, calls, attempts, ledger>>
    /\ UNCHANGED <<redisEvents, phase, existingSubscriptions, nextId, restarts,
                   replay, everDeactivated>>
    /\ UNCHANGED consumerVars

\* DELETE /subscriptions/:id, sent by any client
Delete(id) ==
    /\ deleteSubscriptions(id)
    /\ UNCHANGED otherVars

(***************************************************************************)
(* POST /webhook                                                           *)
(***************************************************************************)
\* mutant: objectId is not tested
validPayloadNoObjectId(event) ==
    truthy(event.eventType) /\ truthy(event.objectType)

\* the test !event.eventType || !event.objectType || !event.objectId, negated
validPayload(event) ==
    truthy(event.eventType) /\ truthy(event.objectType) /\ truthy(event.objectId)

\* mutant: the wildcard is not tested
eventMatchNoWildcard(subscription, event) ==
    \E i \in 1..Len(subscription.events) :
        \/ subscription.events[i] = event.eventType
        \/ startsWith(subscription.events[i], toLowerCase(event.objectType))

\* mutant: only the wildcard and the exact event type are tested
eventMatchExactOnly(subscription, event) ==
    \E i \in 1..Len(subscription.events) :
        \/ subscription.events[i] = star
        \/ subscription.events[i] = event.eventType

\* subscription.events.some(...)
eventMatch(subscription, event) ==
    \E i \in 1..Len(subscription.events) :
        \/ subscription.events[i] = star
        \/ subscription.events[i] = event.eventType
        \/ startsWith(subscription.events[i], toLowerCase(event.objectType))

\* mutant: the loop stops after the first notifySubscriber call
notifiedFirstOnly(subs, event) ==
    LET all == { id \in DOMAIN subs : subs[id].active /\ eventMatch(subs[id], event) }
    IN  { id \in all : \A other \in all : id <= other }

\* the subscriptions the fan-out loop calls notifySubscriber for
notified(subs, event) ==
    { id \in DOMAIN subs : subs[id].active /\ eventMatch(subs[id], event) }

\* up to the awaits on Redis: validation, then the event is stored for 24 h
PublishReceive(c, event) ==
    /\ response = NoResponse
    /\ calls[c].pc = "idle"
    /\ IF ~validPayload(event)
       THEN /\ response' = [Response("webhook", 400) EXCEPT !.event = event]
            /\ UNCHANGED <<redisEvents, calls>>
       ELSE /\ redisEvents' = redisEvents \cup {event}
            /\ calls' = [calls EXCEPT ![c] = [IdleCall EXCEPT !.pc = "stored",
                                                              !.event = event]]
            /\ UNCHANGED response
    /\ UNCHANGED <<subscribers, redisSubscriptions, phase,
                   existingSubscriptions, nextId, restarts,
                   replay, everDeactivated,
                   attempts>>
    /\ UNCHANGED ledger
    /\ UNCHANGED consumerVars
    /\ UNCHANGED otherVars

\* mutant: the loop runs without waiting for the store's answers
PublishFanoutEarly(c) ==
    /\ response = NoResponse
    /\ calls[c].pc = "stored"
    /\ calls' = [calls EXCEPT ![c].pc = "notifying",
                              ![c].results =
                                  [id \in SubIds |->
                                      IF id \in notified(subscribers, calls[c].event)
                                      THEN "pending" ELSE "none"]]
    /\ UNCHANGED <<subscribers, redisSubscriptions, redisEvents, phase,
                   existingSubscriptions, nextId, restarts, response,
                   replay, everDeactivated,
                   attempts>>
    /\ UNCHANGED ledger
    /\ UNCHANGED consumerVars
    /\ UNCHANGED otherVars

\* The loop over subscribers.entries(): every notifySubscriber call runs up to
\* its await of axios.post, so every delivery is in flight when the loop ends.
\* The handler reaches the loop when Redis has answered its set and lPush.  The
\* start-up code sends hGetAll as soon as the connection is up, before any
\* lPush can be sent (an lPush follows the answer to a set), and Redis answers
\* in order: the subscriptions are loaded before any loop runs.
PublishFanout(c) ==
    /\ response = NoResponse
    /\ phase = "ready"
    /\ calls[c].pc = "stored"
    /\ calls' = [calls EXCEPT ![c].pc = "notifying",
                              ![c].results =
                                  [id \in SubIds |->
                                      IF id \in notified(subscribers, calls[c].event)
                                      THEN "pending" ELSE "none"]]
    /\ UNCHANGED <<subscribers, redisSubscriptions, redisEvents, phase,
                   existingSubscriptions, nextId, restarts, response,
                   replay, everDeactivated,
                   attempts>>
    /\ UNCHANGED ledger
    /\ UNCHANGED consumerVars
    /\ UNCHANGED otherVars

(***************************************************************************)
(* notifySubscriber: the part after the await of axios.post                *)
(***************************************************************************)
\* axios.post resolved (a status below 500): lines 203-204
recordSuccess(subscription) ==
    [subscription EXCEPT !.successCount = @ + 1, !.lastNotified = TRUE]

\* mutant: the counter is written from a value read before the await
recordFailureStale(subscription) ==
    [subscription EXCEPT !.errorCount = 1,
                         !.active = IF 1 > ErrorThreshold THEN FALSE ELSE @]

\* mutant: the subscription is deactivated when errorCount reaches 10
recordFailureEarly(subscription) ==
    [subscription EXCEPT !.errorCount = @ + 1,
                         !.active = IF subscription.errorCount + 1 >= ErrorThreshold
                                    THEN FALSE ELSE @]

\* axios.post rejected (network error, timeout, 5xx): the catch block
recordFailure(subscription) ==
    [subscription EXCEPT !.errorCount = @ + 1,
                         !.active = IF subscription.errorCount + 1 > ErrorThreshold
                                    THEN FALSE ELSE @]

\* is the object the delivery holds still the one in the Map
Attached(c, id) == id \in DOMAIN subscribers /\ id \notin calls[c].detached

\* what axios.post meets: an HTTP answer, a network error (no answer), or no
\* answer within the 30 s of `timeout`
answer(status) == [kind |-> "response", status |-> status]
networkError == [kind |-> "error", status |-> 0]
timeoutError == [kind |-> "timeout", status |-> 0]

\* mutant: a 4xx answer rejects, as with the default validateStatus of axios
validateStatusDefault(status) == status >= 200 /\ status < 300

\* validateStatus: (status) => status < 500
validateStatus(status) == status < 500

\* does the promise of axios.post resolve
axiosPostResolves(outcome) ==
    outcome.kind = "response" /\ validateStatus(outcome.status)

\* one delivery settles: axios.post has met the outcome, notifySubscriber runs
\* to its end (fulfilled) or through its catch block (rejected)
Notify(c, id, outcome) ==
    /\ response = NoResponse
    /\ calls[c].pc = "notifying"
    /\ calls[c].results[id] = "pending"
    /\ IF axiosPostResolves(outcome)
       THEN /\ IF Attached(c, id)
               THEN subscribers' = [subscribers EXCEPT ![id] = recordSuccess(@)]
               ELSE UNCHANGED subscribers
            /\ calls' = [calls EXCEPT ![c].results[id] = "fulfilled",
                                      ![c].outcomes[id] = outcome,
                                      ![c].detached = @ \ {id}]
            /\ attempts' = IF id \in DOMAIN subscribers
                           THEN [attempts EXCEPT !.delivered[id] = @ + 1]
                           ELSE attempts
            /\ UNCHANGED everDeactivated
       ELSE /\ IF Attached(c, id)
               THEN /\ subscribers' = [subscribers EXCEPT ![id] = recordFailure(@)]
                    /\ everDeactivated' =
                           IF ~subscribers'[id].active
                           THEN everDeactivated \cup {id} ELSE everDeactivated
               ELSE UNCHANGED <<subscribers, everDeactivated>>
            /\ calls' = [calls EXCEPT ![c].results[id] = "rejected",
                                      ![c].outcomes[id] = outcome,
                                      ![c].detached = @ \ {id}]
            /\ attempts' = IF id \in DOMAIN subscribers
                           THEN [attempts EXCEPT !.failed[id] = @ + 1]
                           ELSE attempts
    /\ UNCHANGED <<redisSubscriptions, redisEvents, phase, existingSubscriptions,
                   nextId, restarts, response, replay>>
    /\ UNCHANGED ledger
    /\ UNCHANGED consumerVars
    /\ UNCHANGED otherVars

\* the subscriber answers 200
NotifyFulfilled(c, id) == Notify(c, id, answer(200))

\* the subscriber cannot be reached
NotifyRejected(c, id) == Notify(c, id, networkError)

\* mutant: every settled result is counted, whatever its status
countSettled(results, status) ==
    Cardinality({id \in SubIds : results[id] \in {"fulfilled", "rejected"}})

\* results.filter(r => r.status === status).length
countStatus(results, status) == Cardinality({id \in SubIds : results[id] = status})

\* mutant: Promise.all in place of Promise.allSettled: a rejected delivery
\* makes the handler throw and the request is never answered
PublishReturnAll(c) ==
    /\ response = NoResponse
    /\ calls[c].pc = "notifying"
    /\ \A id \in SubIds : calls[c].results[id] \in {"none", "fulfilled"}
    /\ response' =
           [Response("webhook", 200) EXCEPT
               !.event = calls[c].event,
               !.notificationsSent = Cardinality({id \in SubIds :
                                         calls[c].results[id] = "fulfilled"})]
    /\ calls' = [calls EXCEPT ![c] = IdleCall]
    /\ UNCHANGED <<subscribers, redisSubscriptions, redisEvents, phase,
                   existingSubscriptions, nextId, restarts, replay, everDeactivated,
                   attempts>>
    /\ UNCHANGED ledger
    /\ UNCHANGED consumerVars
    /\ UNCHANGED otherVars

\* Promise.allSettled has resolved: the response of POST /webhook
PublishReturn(c) ==
    /\ response = NoResponse
    /\ calls[c].pc = "notifying"
    /\ \A id \in SubIds : calls[c].results[id] # "pending"
    /\ response' =
           [Response("webhook", 200) EXCEPT
               !.event = calls[c].event,
               !.notificationsSent = countStatus(calls[c].results, "fulfilled"),
               !.notificationsFailed = countStatus(calls[c].results, "rejected")]
    /\ calls' = [calls EXCEPT ![c] = IdleCall]
    /\ UNCHANGED <<subscribers, redisSubscriptions, redisEvents, phase,
                   existingSubscriptions, nextId, restarts,
                   replay, everDeactivated,
                   attempts>>
    /\ UNCHANGED ledger
    /\ UNCHANGED consumerVars
    /\ UNCHANGED otherVars

(***************************************************************************)
(* POST /replay/:eventId, GET /stats, key expiry                           *)
(***************************************************************************)
\* the request is dispatched to the handler: redisClient.keys is sent and Redis
\* answers with the keys that have not expired
ReplayKeys(eventId) ==
    /\ response = NoResponse
    /\ replay.pc = "idle"
    /\ replay' = [pc |-> "keys", eventId |-> eventId, keys |-> redisEvents]
    /\ UNCHANGED <<subscribers, redisSubscriptions, redisEvents, calls, phase,
                   existingSubscriptions, nextId, restarts, response,
                   everDeactivated, attempts>>
    /\ UNCHANGED ledger
    /\ UNCHANGED consumerVars
    /\ UNCHANGED otherVars

\* events.find(e => e.event.eventId === req.params.eventId), over the events
\* of the keys the handler was given
targetEvents(eventId) == { e \in replay.keys : e.eventId = eventId }

\* Redis has answered the get of every key.  A key that expired after the
\* answer to keys gives null, JSON.parse(null) is null and the test of find
\* throws: 500.  A found event is handed to app.post('/webhook')(req, res):
\* app.post with a path and no handler registers nothing that can run and
\* returns the app, or throws in a router that requires a handler (500);
\* calling the app dispatches the request on its own URL, which is still
\* /replay/:eventId, so this handler runs again.  The /webhook handler does
\* not run.
ReplayFind ==
    /\ response = NoResponse
    /\ replay.pc = "keys"
    /\ IF ~(replay.keys \subseteq redisEvents)
       THEN /\ response' = [Response("replay", 500) EXCEPT
                               !.event.eventId = replay.eventId]
            /\ replay' = IdleReplay
       ELSE IF targetEvents(replay.eventId) = {}
       THEN /\ response' = [Response("replay", 404) EXCEPT
                               !.event.eventId = replay.eventId]
            /\ replay' = IdleReplay
       ELSE \/ /\ response' = [Response("replay", 500) EXCEPT
                                  !.event.eventId = replay.eventId]
               /\ replay' = IdleReplay
            \/ /\ replay' = [replay EXCEPT !.keys = redisEvents]
               /\ UNCHANGED response
    /\ UNCHANGED <<subscribers, redisSubscriptions, redisEvents, calls, phase,
                   existingSubscriptions, nextId, restarts, everDeactivated,
                   attempts>>
    /\ UNCHANGED ledger
    /\ UNCHANGED consumerVars
    /\ UNCHANGED otherVars

Stats ==
    /\ response = NoResponse
    /\ response' = Response("stats", 200)
    /\ UNCHANGED <<subscribers, redisSubscriptions, redisEvents, calls, phase,
                   existingSubscriptions, nextId, restarts,
                   replay, everDeactivated,
                   attempts>>
    /\ UNCHANGED ledger
    /\ UNCHANGED consumerVars
    /\ UNCHANGED otherVars

\* the last key holding the event reaches its 24 h expiry ({ EX: 86400 })
ExpireEvent(event) ==
    /\ response = NoResponse
    /\ event \in redisEvents
    /\ redisEvents' = redisEvents \ {event}
    /\ UNCHANGED <<subscribers, redisSubscriptions, calls, phase,
                   existingSubscriptions, nextId, restarts, response,
                   replay, everDeactivated,
                   attempts>>
    /\ UNCHANGED ledger
    /\ UNCHANGED consumerVars
    /\ UNCHANGED otherVars

(***************************************************************************)
(* Process exit and start: the Map starts empty, the app.listen callback   *)
(* loads the hash webhook:subscriptions into it.                           *)
(***************************************************************************)
Restart ==
    /\ response = NoResponse
    /\ restarts' = restarts + 1
    /\ subscribers' = << >>
    /\ calls' = [c \in CallIds |-> IdleCall]
    /\ replay' = IdleReplay
    /\ phase' = "connecting"
    /\ existingSubscriptions' = << >>
    /\ attempts' = NoAttempts
    /\ ledger' = [ledger EXCEPT !.issued = nextId]
    /\ UNCHANGED <<redisSubscriptions, redisEvents, nextId, response,
                   everDeactivated>>
    /\ UNCHANGED consumerVars
    /\ UNCHANGED otherVars

\* mutant: the start-up code loads nothing
loadSubscriptionsNone(subs, stored) == subs

\* for (const [id, data] of Object.entries(existingSubscriptions))
\*   subscribers.set(id, JSON.parse(data))
loadSubscriptions(subs, stored) ==
    [id \in DOMAIN subs \cup DOMAIN stored |->
        IF id \in DOMAIN stored THEN stored[id] ELSE subs[id]]

\* initRedis has connected and the start-up code sends hGetAll: Redis answers
\* with the hash as it is after the commands sent before it
Connect ==
    /\ response = NoResponse
    /\ phase = "connecting"
    /\ phase' = "loading"
    /\ existingSubscriptions' = redisSubscriptions
    /\ UNCHANGED <<subscribers, redisSubscriptions, redisEvents, calls, nextId,
                   restarts, response, replay, everDeactivated,
                   attempts>>
    /\ UNCHANGED ledger
    /\ UNCHANGED consumerVars
    /\ UNCHANGED otherVars

\* the answer to hGetAll has arrived: the loop over its entries
Load ==
    /\ response = NoResponse
    /\ phase = "loading"
    /\ phase' = "ready"
    /\ subscribers' = loadSubscriptions(subscribers, existingSubscriptions)
    /\ existingSubscriptions' = << >>
    /\ calls' = Detach(calls, DOMAIN existingSubscriptions)
    /\ ledger' = [ledger EXCEPT !.issued = 0]
    /\ UNCHANGED <<redisSubscriptions, redisEvents, nextId, restarts, response,
                   replay, everDeactivated,
                   attempts>>
    /\ UNCHANGED consumerVars
    /\ UNCHANGED otherVars

\* The response has left the service.  Responses are sent one at a time: every
\* handler step waits for the response of the step before it to have left.
SendResponse ==
    /\ response # NoResponse
    /\ response' = NoResponse
    /\ UNCHANGED <<subscribers, redisSubscriptions, redisEvents, calls, phase,
                   existingSubscriptions, nextId, restarts,
                   replay, everDeactivated,
                   attempts>>
    /\ UNCHANGED ledger
    /\ UNCHANGED consumerVars
    /\ UNCHANGED otherVars

(***************************************************************************)
(* The consumer webhook-sync (src/solutions/webhook-sync/index.js): its    *)
(* POST /webhook endpoint, the queue `webhook processing` and the           *)
(* processor of its sync-object jobs.                                       *)
(***************************************************************************)
\* config.maxRetries, config.processingDelay, the delay of the backoff option
maxRetries == 3
processingDelay == 1000
backoffDelay == 2000

\* two processors are registered on the queue, each taking one job at a time
processors == 2

creation == <<"c","r","e","a","t","i","o","n">>
\* the properties of an event, by the names they carry: name alone, or the
\* properties fetchObjectFromHubSpot asks for
nameProperty == <<"n","a","m","e">>
companyProperties ==
    <<"n","a","m","e",",","d","o","m","a","i","n",",","i","n","d","u","s","t","r","y",
      ",","f","o","u","n","d","e","d","_","y","e","a","r",
      ",","h","s","_","l","a","s","t","m","o","d","i","f","i","e","d","d","a","t","e">>

\* String.prototype.includes
includes(s, sub) ==
    \E k \in 0..(Len(s) - Len(sub)) : SubSeq(s, k + 1, k + Len(sub)) = sub

\* the fields of an event that the consumer reads
SyncEvent(t, o, i, p) ==
    [eventType |-> t, objectType |-> o, objectId |-> i, properties |-> p]

NoSyncEvent == SyncEvent(undefined, undefined, undefined, undefined)

\* the header x-hubspot-signature: 'v1=' and the HMAC-SHA256, under a key, of
\* the JSON of the body ("body") or of another text ("other"); or no header
signatureHeader(key, data) == [present |-> TRUE, key |-> key, data |-> data]
noSignature == [present |-> FALSE, key |-> <<>>, data |-> ""]

\* 'v1=' + createHmac('sha256', config.webhookSecret).update(JSON.stringify(req.body))
expectedSignature == signatureHeader(webhookSecret, "body")

\* a request to POST /webhook of the consumer: `event` is the field event of
\* the body when it is truthy (hasEvent), `own` the fields of the body itself
SyncRequest(hasEvent, event, own, signature) ==
    [hasEvent |-> hasEvent, event |-> event, own |-> own, signature |-> signature]

\* the payload notifySubscriber sends, with its signature
delivered(event) == SyncRequest(TRUE, event, NoSyncEvent, expectedSignature)

SyncEvents ==
    { SyncEvent(companyCreation, COMPANY, id42, undefined),
      SyncEvent(companyPropertyChange, COMPANY, id42, nameProperty) }

LackingSyncEvents ==
    { SyncEvent(undefined, COMPANY, id42, nameProperty),
      SyncEvent(companyPropertyChange, undefined, id42, nameProperty),
      SyncEvent(companyPropertyChange, COMPANY, undefined, nameProperty) }

\* the events of the simulator: a creation, and a change that carries the
\* properties of the company; a change that carries one property
QueueEvents ==
    { SyncEvent(companyCreation, COMPANY, id42, companyProperties),
      SyncEvent(companyPropertyChange, COMPANY, id42, companyProperties),
      SyncEvent(companyPropertyChange, COMPANY, id42, nameProperty) }

QueueRequests == { delivered(e) : e \in QueueEvents }

SyncRequests ==
    { delivered(e) : e \in SyncEvents \cup LackingSyncEvents }
        \cup { SyncRequest(FALSE, NoSyncEvent, e, expectedSignature) :
                   e \in SyncEvents \cup {NoSyncEvent} }
        \cup { SyncRequest(TRUE, e, NoSyncEvent, sig) :
                   e \in SyncEvents,
                   sig \in { noSignature, signatureHeader(otherSecret, "body"),
                             signatureHeader(webhookSecret, "other") } }

\* validateWebhookSignature: `return true` is its first statement
validateWebhookSignature(req) == TRUE

\* const event = req.body.event || req.body
extractEvent(req) == IF req.hasEvent THEN req.event ELSE req.own

\* mutant: maxRetries is taken as the number of retries after the first attempt
jobOptionsRetries ==
    [delay |-> processingDelay, attempts |-> maxRetries + 1,
     backoff |-> [type |-> "exponential", delay |-> backoffDelay]]

\* mutant: the job is added without a delay
jobOptionsNoDelay ==
    [delay |-> 0, attempts |-> maxRetries,
     backoff |-> [type |-> "exponential", delay |-> backoffDelay]]

\* the options of processingQueue.add
jobOptions ==
    [delay |-> processingDelay, attempts |-> maxRetries,
     backoff |-> [type |-> "exponential", delay |-> backoffDelay]]

\* mutant: backoff of type 'fixed'
fixed(delay, attemptsMade) == delay

\* backoff of type 'exponential': the time the queue keeps a job back after
\* its attemptsMade-th failed attempt, Math.round((2 ** attemptsMade - 1) * delay)
exponential(delay, attemptsMade) == (2 ^ attemptsMade - 1) * delay

\* the clock is read in steps of the shortest delay
clockStep == processingDelay

Max(a, b) == IF a < b THEN b ELSE a

\* queueEventForProcessing: the job that processingQueue.add creates; it is
\* kept back for its delay.  History of the job: runs, the number of times a
\* processor took it; waited, the time it has been kept back since it was
\* added or last failed;
\* fetch and sink, what the CRM and the sink answered in its last attempt.
newJob(event) ==
    [name |-> "sync-object",
     data |-> SyncEvent(event.eventType, event.objectType, event.objectId,
                        event.properties),
     opts |-> jobOptions, state |-> "delayed", delay |-> jobOptions.delay,
     attemptsMade |-> 0, lockedBy |-> {},
     runs |-> 0, waited |-> 0, fetch |-> "none", sink |-> "none"]

SyncResponse(status, queued, req) ==
    [status |-> status, queued |-> queued,
     signed |-> req.signature = expectedSignature]

\* processingQueue.add resolves, or rejects (the queue's Redis is away)
AddOutcomes == {"added", "rejected"}

\* mutant: the request is acknowledged whatever became of the job
ackStatusAlways(added) == 200

\* the status of the answer: res.json after the awaited add, status 500 from
\* the catch when the add has thrown
ackStatus(added) == IF added = "added" THEN 200 ELSE 500

handleWebhook(req, added) ==
    /\ syncResponse = NoSyncResponse
    /\ IF ~validateWebhookSignature(req)
       THEN /\ syncResponse' = SyncResponse(401, FALSE, req)
            /\ UNCHANGED <<jobs, processingErrors>>
       ELSE /\ IF added = "added"
               THEN /\ jobs' = Append(jobs, newJob(extractEvent(req)))
                    /\ UNCHANGED processingErrors
               ELSE /\ processingErrors' =
                           [processingErrors EXCEPT !.webhook_error = @ + 1]
                    /\ UNCHANGED jobs
            /\ syncResponse' =
                   SyncResponse(ackStatus(added), added = "added", req)
    /\ UNCHANGED serviceVars
    /\ UNCHANGED otherVars

\* the answer has left the consumer
SendSyncResponse ==
    /\ syncResponse # NoSyncResponse
    /\ syncResponse' = NoSyncResponse
    /\ UNCHANGED <<jobs, processingErrors>>
    /\ UNCHANGED serviceVars
    /\ UNCHANGED otherVars

\* time passes: the delay of every job that is kept back runs down
elapse(job) ==
    IF job.state = "delayed" /\ job.delay > 0
    THEN [job EXCEPT !.delay = Max(0, @ - clockStep),
                     !.waited = @ + clockStep]
    ELSE job

Tick ==
    /\ jobs' = [j \in DOMAIN jobs |-> elapse(jobs[j])]
    /\ UNCHANGED <<syncResponse, processingErrors>>
    /\ UNCHANGED serviceVars
    /\ UNCHANGED otherVars

\* the queue: the delay of a job (or its backoff) has elapsed
Promote(j) ==
    /\ jobs[j].state = "delayed"
    /\ jobs[j].delay = 0
    /\ jobs' = [jobs EXCEPT ![j].state = "waiting"]
    /\ UNCHANGED <<syncResponse, processingErrors>>
    /\ UNCHANGED serviceVars
    /\ UNCHANGED otherVars

\* the two processors registered on the queue, each taking one job at a time
Workers == 1..processors

Free(w) == \A k \in DOMAIN jobs : w \notin jobs[k].lockedBy

\* mutant: a free processor takes a job that another processor has taken
TakeUnlocked(w, j) ==
    /\ jobs[j].state \in {"waiting", "active"}
    /\ Free(w)
    /\ jobs' = [jobs EXCEPT ![j].state = "active", ![j].runs = @ + 1,
                            ![j].lockedBy = @ \cup {w}]
    /\ UNCHANGED <<syncResponse, processingErrors>>
    /\ UNCHANGED serviceVars
    /\ UNCHANGED otherVars

\* the queue: a processor that is free takes a waiting job, which leaves the
\* waiting list in the same step
Take(w, j) ==
    /\ jobs[j].state = "waiting"
    /\ Free(w)
    /\ jobs' = [jobs EXCEPT ![j].state = "active", ![j].runs = @ + 1,
                            ![j].lockedBy = @ \cup {w}]
    /\ UNCHANGED <<syncResponse, processingErrors>>
    /\ UNCHANGED serviceVars
    /\ UNCHANGED otherVars

\* mutant: a job whose attempts are used up is removed from the queue
moveToFailedRemoved(job) ==
    [job EXCEPT !.attemptsMade = @ + 1,
                !.state = IF job.attemptsMade + 1 < job.opts.attempts
                          THEN "delayed" ELSE "removed",
                !.delay = exponential(job.opts.backoff.delay, job.attemptsMade + 1),
                !.waited = 0]

\* the queue: the processor of a job has thrown; with attempts left the job
\* is kept back for its backoff, without it is failed
moveToFailed(job) ==
    IF job.attemptsMade + 1 < job.opts.attempts
    THEN [job EXCEPT !.attemptsMade = @ + 1, !.state = "delayed",
                     !.delay = exponential(job.opts.backoff.delay,
                                           job.attemptsMade + 1),
                     !.waited = 0]
    ELSE [job EXCEPT !.attemptsMade = @ + 1, !.state = "failed"]

\* eventType.includes('creation') || !properties
needsFetch(data) == includes(data.eventType, creation) \/ ~truthy(data.properties)

\* what one run of processObjectSync asks of the CRM and of the sink, the
\* CRM answering crm and the sink answering sink: no fetch when eventType is
\* not a string (includes throws) or the event has properties; no push when
\* the run has thrown before it or the CRM has answered 404
fetchMade(data) == data.eventType # undefined /\ needsFetch(data)

pushMade(data, crm) ==
    /\ data.eventType # undefined
    /\ fetchMade(data) => crm = "found"

\* mutant: a 404 of the CRM is thrown as every other error
syncThrowsNotFound(data, crm, sink) ==
    \/ data.eventType = undefined
    \/ needsFetch(data) /\ crm # "found"
    \/ ~(needsFetch(data) /\ crm = "notFound") /\ sink # "ok"

\* does processObjectSync throw: eventType is not a string; the fetch from
\* the CRM fails other than with 404; the push to Databox fails.  A 404 of
\* the CRM gives no object and sendObjectToDatabox returns without a push.
syncThrows(data, crm, sink) ==
    \/ data.eventType = undefined
    \/ needsFetch(data) /\ crm = "error"
    \/ ~(needsFetch(data) /\ crm = "notFound") /\ sink # "ok"

\* the object processObjectSync builds from an event that carries its
\* properties: { id: objectId, properties }; a property is held by its name
contacts == <<"c","o","n","t","a","c","t","s">>
industryProperty == <<"i","n","d","u","s","t","r","y">>
foundedYearProperty == <<"f","o","u","n","d","e","d","_","y","e","a","r">>
eventObject(data) == [id |-> data.objectId, properties |-> data.properties]

\* objectData.properties.<name>
property(objectData, name) ==
    IF includes(objectData.properties, name) THEN name ELSE undefined

\* convertToDataboxFormat: the record pushed for an object, date, objectId and
\* objectType and, for objectType 'companies' or 'contacts', the fields of
\* that type
convertToDataboxFormat(objectType, objectData) ==
    LET data == [date |-> "now", objectId |-> objectData.id,
                 objectType |-> objectType]
    IN  IF objectType = companies
        THEN (IF truthy(property(objectData, foundedYearProperty))
              THEN "$company_age" :> "years" ELSE << >>)
             @@ ("$companies_updated" :> 1)
             @@ ("company_name" :> property(objectData, nameProperty))
             @@ ("industry" :> property(objectData, industryProperty))
             @@ data
        ELSE IF objectType = contacts
        THEN ("$contacts_updated" :> 1)
             @@ ("contact_name" :> "name")
             @@ data
        ELSE data

CrmOutcomes == {"found", "notFound", "error"}
SinkOutcomes == {"ok", "unauthorized", "error"}

\* the processor of sync-object jobs runs to its end or throws; the queue then
\* completes the job or moves it to failed and emits `failed`
processObjectSync(j, crm, sink) ==
    /\ jobs[j].state = "active"
    /\ LET ran == [jobs[j] EXCEPT
                      !.lockedBy = {},
                      !.fetch = IF fetchMade(jobs[j].data) THEN crm ELSE "none",
                      !.sink = IF pushMade(jobs[j].data, crm) THEN sink ELSE "none"]
       IN IF syncThrows(jobs[j].data, crm, sink)
          THEN /\ jobs' = [jobs EXCEPT ![j] = moveToFailed(ran)]
               /\ processingErrors' =
                      [processingErrors EXCEPT !.sync_error = @ + 1,
                                               !.job_failure = @ + 1]
          ELSE /\ jobs' = [jobs EXCEPT ![j] = [ran EXCEPT !.state = "completed"]]
               /\ UNCHANGED processingErrors
    /\ UNCHANGED syncResponse
    /\ UNCHANGED serviceVars
    /\ UNCHANGED otherVars

(***************************************************************************)
(* The CRM simulator (src/hubspot-simulator/server.js): the store of       *)
(* companies, the requests that change it, the notification each change    *)
(* posts to WEBHOOK_URL, and the requests that read it.                    *)
(***************************************************************************)
\* String.prototype.toUpperCase
upperChar(c) ==
    IF \E i \in 1..Len(LowerCase) : LowerCase[i] = c
    THEN UpperCase[CHOOSE i \in 1..Len(LowerCase) : LowerCase[i] = c]
    ELSE c

toUpperCase(s) == [i \in 1..Len(s) |-> upperChar(s[i])]

Min(a, b) == IF a < b THEN a ELSE b

\* Array.prototype.findIndex for c => c.id === id: the index, counted from 0,
\* of the first company with that id, or -1
findIndex(store, id) ==
    IF \E i \in 1..Len(store) : store[i].id = id
    THEN (CHOOSE i \in 1..Len(store) :
              /\ store[i].id = id
              /\ \A k \in 1..(i - 1) : store[k].id # id) - 1
    ELSE -1

\* Array.prototype.slice(start, end), indexes counted from 0
slice(s, start, end) == SubSeq(s, start + 1, Min(end, Len(s)))

\* the fields of the body sendWebhookNotification posts that the webhook
\* service and the consumer read
notification(eventType, objectType, objectId, properties) ==
    SyncEvent(eventType, toUpperCase(objectType), objectId, properties)

\* what axios.post to WEBHOOK_URL ends with
WebhookOutcomes == {"delivered", "failed"}

\* mutant: the error of axios.post is thrown to the handler
sendWebhookNotificationThrows(outcome) == outcome = "delivered"

\* sendWebhookNotification: does the call return to the handler; the catch
\* logs the error of axios.post
sendWebhookNotification(outcome) == TRUE

\* a change is applied and its notification posted
applied(sim, event, outcome) ==
    [sim EXCEPT !.mutations = @ + 1,
                !.posts = @ + 1,
                !.lost = IF outcome = "failed" THEN @ + 1 ELSE @,
                !.event = event]

\* Object.assign(company.properties, ...); company.updatedAt = new Date()
updated(store, i) ==
    [store EXCEPT ![i] = Company(@.id, clock, @.version + 1)]

\* PATCH /crm/v3/objects/companies/:companyId
updateCompany(id, outcome) ==
    /\ simulator.status = 0
    /\ LET i == findIndex(crmCompanies, id) + 1
       IN IF i = 0
          THEN /\ simulator' = [simulator EXCEPT !.status = 404]
               /\ UNCHANGED crmCompanies
          ELSE /\ crmCompanies' = updated(crmCompanies, i)
               /\ simulator' =
                      [applied(simulator,
                                 notification(companyPropertyChange, company,
                                              id, companyProperties),
                                 outcome)
                          EXCEPT !.status =
                              IF sendWebhookNotification(outcome) THEN 200 ELSE 0]
    /\ UNCHANGED <<clock, subscriber, poller>>
    /\ UNCHANGED serviceVars
    /\ UNCHANGED consumerVars

\* POST /crm/v3/objects/companies
createCompany(outcome) ==
    /\ simulator.status = 0
    /\ LET id == uuids[Len(crmCompanies) + 1]
       IN /\ crmCompanies' = Append(crmCompanies, Company(id, clock, 0))
          /\ simulator' =
                 [applied(simulator,
                            notification(companyCreation, company, id,
                                         companyProperties),
                            outcome)
                     EXCEPT !.status =
                         IF sendWebhookNotification(outcome) THEN 201 ELSE 0]
    /\ UNCHANGED <<clock, subscriber, poller>>
    /\ UNCHANGED serviceVars
    /\ UNCHANGED consumerVars

\* the number of inputs a batch update takes
batchLimit == 100

\* POST /crm/v3/objects/companies/batch/update, up to the loop
batchUpdate(inputs) ==
    /\ simulator.status = 0
    /\ ~simulator.inBatch
    /\ simulator' = [simulator EXCEPT !.inBatch = TRUE,
                                      !.inputs = slice(inputs, 0, batchLimit)]
    /\ UNCHANGED <<crmCompanies, clock, subscriber, poller>>
    /\ UNCHANGED serviceVars
    /\ UNCHANGED consumerVars

\* one round of the loop of the batch update: the input's company, when
\* there is one, is updated and its notification awaited
batchInput(outcome) ==
    /\ simulator.status = 0
    /\ simulator.inBatch
    /\ simulator.inputs # << >>
    /\ LET id == Head(simulator.inputs)
           i == findIndex(crmCompanies, id) + 1
           rest == [simulator EXCEPT !.inputs = Tail(@)]
       IN IF i = 0
          THEN /\ simulator' = rest
               /\ UNCHANGED crmCompanies
          ELSE /\ crmCompanies' = updated(crmCompanies, i)
               /\ simulator' =
                      IF sendWebhookNotification(outcome)
                      THEN applied(rest,
                                     notification(companyPropertyChange, company,
                                                  id, companyProperties),
                                     outcome)
                      ELSE [applied(rest,
                                      notification(companyPropertyChange, company,
                                                   id, companyProperties),
                                      outcome)
                               EXCEPT !.inBatch = FALSE, !.inputs = << >>]
    /\ UNCHANGED <<clock, subscriber, poller>>
    /\ UNCHANGED serviceVars
    /\ UNCHANGED consumerVars

\* the loop of the batch update has ended: res.json({ results })
batchReturn ==
    /\ simulator.status = 0
    /\ simulator.inBatch
    /\ simulator.inputs = << >>
    /\ simulator' = [simulator EXCEPT !.inBatch = FALSE, !.status = 200]
    /\ UNCHANGED <<crmCompanies, clock, subscriber, poller>>
    /\ UNCHANGED serviceVars
    /\ UNCHANGED consumerVars

\* the answer has left the simulator
SendSimulatorResponse ==
    /\ simulator.status # 0
    /\ simulator' = [simulator EXCEPT !.status = 0]
    /\ UNCHANGED <<crmCompanies, clock, subscriber, poller>>
    /\ UNCHANGED serviceVars
    /\ UNCHANGED consumerVars

\* time passes
Pass ==
    /\ clock' = clock + 1
    /\ UNCHANGED <<crmCompanies, simulator, subscriber, poller>>
    /\ UNCHANGED serviceVars
    /\ UNCHANGED consumerVars

\* GET /crm/v3/objects/<objectType>/<objectId>: the simulator has the one
\* route /crm/v3/objects/companies/:companyId, matched without regard to
\* case; every other path, and an id that is not in the store, is answered 404
getCompany(store, objectType, objectId) ==
    IF toLowerCase(objectType) = companies /\ findIndex(store, objectId) # -1
    THEN "found" ELSE "notFound"

\* the limit of a page: Math.min(parseInt(req.query.limit) || 10, 100), for a
\* limit that is absent or not a number (0) or a number
defaultLimit == 10
maxLimit == 100
pageLimit(limit) == Min(IF limit = 0 THEN defaultLimit ELSE limit, maxLimit)

\* mutant: the page starts at the company the cursor names
listCompaniesFromCursor(store, limit, after) ==
    LET startIndex == IF truthy(after) THEN findIndex(store, after) ELSE 0
        results == slice(store, startIndex, startIndex + pageLimit(limit))
    IN  [results |-> results,
         next |-> IF startIndex + pageLimit(limit) < Len(store)
                  THEN IF results = << >> THEN undefined
                       ELSE results[Len(results)].id
                  ELSE undefined,
         hasNext |-> startIndex + pageLimit(limit) < Len(store)]

\* GET /crm/v3/objects/companies?limit=&after=: the page after the company
\* with id `after`, or the first page, and in paging.next the id of its last
\* company when companies are left
listCompanies(store, limit, after) ==
    LET startIndex == IF truthy(after) THEN findIndex(store, after) + 1 ELSE 0
        results == slice(store, startIndex, startIndex + pageLimit(limit))
    IN  [results |-> results,
         next |-> IF startIndex + pageLimit(limit) < Len(store)
                  THEN IF results = << >> THEN undefined
                       ELSE results[Len(results)].id
                  ELSE undefined,
         hasNext |-> startIndex + pageLimit(limit) < Len(store)]

(***************************************************************************)
(* direct-polling (src/solutions/direct-polling/index.js): the runs of     *)
(* performSync, started by the cron job and by POST /sync/trigger, that    *)
(* page through the companies of the CRM and push them to Databox.         *)
(***************************************************************************)
\* config.batchSize is read when the process starts
initialize(batchSize) ==
    /\ poller.batchSize = 0
    /\ poller' = [poller EXCEPT !.batchSize = batchSize]
    /\ UNCHANGED <<crmVars, subscriber>>
    /\ UNCHANGED serviceVars
    /\ UNCHANGED consumerVars

\* mutant: a run is started whatever isRunning says
idleAlways(isRunning) == TRUE

\* the test of isRunning that the cron job, POST /sync/trigger and
\* performSync make before a run is started
idle(isRunning) == ~isRunning

\* performSync up to the first await of syncCompanies: isRunning is set, the
\* sync state is read, the first page is about to be asked for
started(p) ==
    [p EXCEPT !.isRunning = TRUE,
              !.active = @ + 1,
              !.runs = @ + 1,
              !.run = [NoRun EXCEPT !.pc = "fetching",
                                    !.lastState = p.lastSyncState]]

\* the cron job fires
cronTick ==
    /\ poller.batchSize > 0
    /\ IF idle(poller.isRunning)
       THEN poller' = started(poller)
       ELSE UNCHANGED poller
    /\ UNCHANGED <<crmVars, subscriber>>
    /\ UNCHANGED serviceVars
    /\ UNCHANGED consumerVars

\* POST /sync/trigger
syncTrigger ==
    /\ poller.batchSize > 0
    /\ poller.status = 0
    /\ IF idle(poller.isRunning)
       THEN poller' = [started(poller) EXCEPT !.status = 200]
       ELSE poller' = [poller EXCEPT !.status = 409]
    /\ UNCHANGED <<crmVars, subscriber>>
    /\ UNCHANGED serviceVars
    /\ UNCHANGED consumerVars

\* the answer has left direct-polling
SendPollerResponse ==
    /\ poller.status # 0
    /\ poller' = [poller EXCEPT !.status = 0]
    /\ UNCHANGED <<crmVars, subscriber>>
    /\ UNCHANGED serviceVars
    /\ UNCHANGED consumerVars

\* what a request to the CRM or to Databox ends with
BatchOutcomes == {"ok", "error"}

\* the filter for recently modified records: every company on the initial
\* sync, then those with updatedAt after lastSyncTime
recentlyModified(results, lastSyncTime) ==
    IF lastSyncTime = null
    THEN results
    ELSE SelectSeq(results, LAMBDA c : c.updatedAt > lastSyncTime)

\* mutant: the loop is left and the state saved after an error
afterErrorSaves(run) == [run EXCEPT !.pc = "saving", !.threw = TRUE]

\* the catch of the loop: the error is thrown on, out of syncCompanies
afterError(run) == [run EXCEPT !.pc = "failed", !.threw = TRUE]

\* the end of a round of the loop: hasMore and after are taken from paging
nextRound(run) ==
    [run EXCEPT !.pc = IF run.hasMore THEN "fetching" ELSE "saving"]

\* one round of the loop of syncCompanies up to the push: the page is fetched
\* and filtered
fetchCompaniesFromHubSpot(outcome) ==
    /\ poller.run.pc = "fetching"
    /\ IF outcome = "ok"
       THEN LET page == listCompanies(crmCompanies, poller.batchSize,
                                      poller.run.after)
                fetched == [poller.run EXCEPT
                               !.page = recentlyModified(
                                            page.results,
                                            poller.run.lastState.lastSyncTime),
                               !.hasMore = page.hasNext,
                               !.after = page.next,
                               !.visited = @ \o page.results]
            IN  poller' =
                    [poller EXCEPT !.run =
                        IF page.results = << >>
                        THEN [poller.run EXCEPT !.pc = "saving"]
                        ELSE IF fetched.page = << >>
                        THEN nextRound(fetched)
                        ELSE [fetched EXCEPT !.pc = "pushing"]]
       ELSE poller' = [poller EXCEPT !.run = afterError(@)]
    /\ UNCHANGED <<crmVars, subscriber>>
    /\ UNCHANGED serviceVars
    /\ UNCHANGED consumerVars

\* history: the version of each company that has been pushed last
pushedWith(pushed, page) ==
    [id \in DOMAIN pushed \cup { page[i].id : i \in 1..Len(page) } |->
        IF \E i \in 1..Len(page) : page[i].id = id
        THEN page[CHOOSE i \in 1..Len(page) : page[i].id = id].version
        ELSE pushed[id]]

\* the rest of the round: the filtered page is sent to Databox
sendCompaniesToDatabox(outcome) ==
    /\ poller.run.pc = "pushing"
    /\ IF outcome = "ok"
       THEN poller' =
                [poller EXCEPT
                    !.pushed = pushedWith(@, poller.run.page),
                    !.run = nextRound([@ EXCEPT !.processed =
                                                    @ + Len(poller.run.page),
                                                !.page = << >>])]
       ELSE poller' = [poller EXCEPT !.run = afterError(@)]
    /\ UNCHANGED <<crmVars, subscriber>>
    /\ UNCHANGED serviceVars
    /\ UNCHANGED consumerVars

\* history: the companies a run has fetched that have been updated since
updatedSince(visited, store) ==
    LET late == { i \in 1..Len(visited) :
                    \E k \in 1..Len(store) :
                        /\ store[k].id = visited[i].id
                        /\ store[k].version > visited[i].version }
    IN  [id \in { visited[i].id : i \in late } |->
            store[CHOOSE k \in 1..Len(store) : store[k].id = id].version]

\* the loop has ended: saveSyncState with lastSyncTime: new Date()
saveSyncState ==
    /\ poller.run.pc = "saving"
    /\ poller' =
           [poller EXCEPT
               !.lastSyncState =
                   [lastSyncTime |-> clock,
                    totalProcessed |-> poller.run.lastState.totalProcessed
                                           + poller.run.processed],
               !.owed = updatedSince(poller.run.visited, crmCompanies),
               !.run.pc = "saved"]
    /\ UNCHANGED <<crmVars, subscriber>>
    /\ UNCHANGED serviceVars
    /\ UNCHANGED consumerVars

\* performSync after syncCompanies has returned or thrown: finally
performSync ==
    /\ poller.run.pc \in {"saved", "failed"}
    /\ poller' = [poller EXCEPT !.isRunning = FALSE,
                                !.active = @ - 1,
                                !.run = NoRun]
    /\ UNCHANGED <<crmVars, subscriber>>
    /\ UNCHANGED serviceVars
    /\ UNCHANGED consumerVars

(***************************************************************************)
(* The process of the consumer webhook-sync: it registers a subscription   *)
(* when it starts, deregisters it when it is shut down, and may crash.     *)
(***************************************************************************)
dealStar == <<"d","e","a","l",".","*">>

\* the body subscribeToWebhooks posts to the webhook service
subscriptionPayload ==
    [url |-> webhookSyncUrl,
     events |-> arrayEvents(<<companyPropertyChange, companyCreation,
                              contactStar, dealStar>>),
     secret |-> webhookSecret]

\* the consumer starts: initialize calls subscribeToWebhooks, which keeps the
\* id the webhook service answers with
subscribeToWebhooks ==
    /\ ~subscriber.up
    /\ postSubscriptions(subscriptionPayload)
    /\ subscriber' = [up |-> TRUE, subscriptionId |-> response'.subscriptionId]
    /\ UNCHANGED <<crmVars, poller>>

\* what the DELETE of shutdown ends with: an answer, or an error that is logged
ShutdownOutcomes == {"answered", "error"}

\* SIGINT: shutdown deletes the subscription the process has registered, and
\* the process exits
shutdown(outcome) ==
    /\ subscriber.up
    /\ IF subscriber.subscriptionId # 0 /\ outcome = "answered"
       THEN deleteSubscriptions(subscriber.subscriptionId)
       ELSE UNCHANGED <<serviceVars, consumerVars>>
    /\ subscriber' = NoSubscriber
    /\ UNCHANGED <<crmVars, poller>>

\* the process is killed or exits on an error: no handler runs
crash ==
    /\ subscriber.up
    /\ subscriber' = NoSubscriber
    /\ UNCHANGED <<crmVars, poller>>
    /\ UNCHANGED serviceVars
    /\ UNCHANGED consumerVars

(***************************************************************************)
(* Specifications.  The bounds are guards of the next-state relation: the  *)
(* handlers themselves are unbounded.                                      *)
(***************************************************************************)
\* may a further subscription be registered, a further success or failure
\* be counted
RoomFor(body, subLimit) == validSubscription(body) => nextId < subLimit
SuccessRoom(c, id) == Attached(c, id) => subscribers[id].successCount < MaxSuccess
FailureRoom(c, id, errLimit) == Attached(c, id) => subscribers[id].errorCount < errLimit

\* The whole service, with subscriptions that match every event or none: a
\* subscription can fail often enough to be deactivated.
Handlers ==
    \/ \E body \in RegisterBodies : RoomFor(body, MaxHealthSubs) /\ Register(body)
    \/ List
    \/ \E id \in SubIds : Delete(id)
    \/ \E c \in HealthCallIds, event \in Events : PublishReceive(c, event)
    \/ \E c \in HealthCallIds : PublishFanout(c)
    \/ \E c \in HealthCallIds, id \in SubIds : SuccessRoom(c, id) /\ NotifyFulfilled(c, id)
    \/ \E c \in HealthCallIds, id \in SubIds : NotifyRejected(c, id)
    \/ \E c \in HealthCallIds : PublishReturn(c)
    \/ \E eventId \in ReplayIds : ReplayKeys(eventId)
    \/ ReplayFind
    \/ Stats
    \/ \E event \in Events : ExpireEvent(event)
    \/ restarts < MaxRestarts /\ Restart
    \/ Connect
    \/ Load

Next ==
    \/ Handlers
    \/ SendResponse

Spec == Init /\ [][Next]_vars

\* The fan-out of the publisher over up to MaxSubs subscribers, each delivery
\* succeeding or failing.
FanoutHandlers ==
    \/ \E body \in RegisterBodies : RoomFor(body, MaxSubs) /\ Register(body)
    \/ \E id \in SubIds : Delete(id)
    \/ \E c \in CallIds, event \in Events : PublishReceive(c, event)
    \/ \E c \in CallIds : PublishFanout(c)
    \/ \E c \in CallIds, id \in SubIds : SuccessRoom(c, id) /\ NotifyFulfilled(c, id)
    \/ \E c \in CallIds, id \in SubIds :
           FailureRoom(c, id, MaxFailures) /\ NotifyRejected(c, id)
    \/ \E c \in CallIds : PublishReturn(c)
    \/ Connect
    \/ Load

NextFanout ==
    \/ FanoutHandlers
    \/ SendResponse

SpecFanout == Init /\ [][NextFanout]_vars

\* The match test of the fan-out loop over the pattern lists and events of
\* MatchPatternLists and MatchEvents: registrations and publishes up to the
\* start of their deliveries.
MatchHandlers ==
    \/ \E body \in MatchBodies : RoomFor(body, MaxHealthSubs) /\ Register(body)
    \/ \E c \in HealthCallIds, event \in MatchEvents : PublishReceive(c, event)
    \/ \E c \in HealthCallIds : PublishFanout(c)
    \/ Connect
    \/ Load

NextMatch ==
    \/ MatchHandlers
    \/ SendResponse

SpecMatch == Init /\ [][NextMatch]_vars

\* what the subscribers' endpoints do to a delivery
DeliveryOutcomes ==
    { answer(200), answer(404), answer(499), answer(500), answer(503),
      networkError, timeoutError }

OutcomeRoom(c, id, outcome) ==
    IF axiosPostResolves(outcome)
    THEN SuccessRoom(c, id) ELSE FailureRoom(c, id, MaxFailures)

\* The deliveries of one publish at a time, over every outcome of axios.post.
DeliveryHandlers ==
    \/ \E body \in RegisterBodies : RoomFor(body, MaxHealthSubs) /\ Register(body)
    \/ \E c \in HealthCallIds, event \in Events : PublishReceive(c, event)
    \/ \E c \in HealthCallIds : PublishFanout(c)
    \/ \E c \in HealthCallIds, id \in SubIds, outcome \in DeliveryOutcomes :
           OutcomeRoom(c, id, outcome) /\ Notify(c, id, outcome)
    \/ \E c \in HealthCallIds : PublishReturn(c)
    \/ Connect
    \/ Load

NextDelivery ==
    \/ DeliveryHandlers
    \/ SendResponse

SpecDelivery == Init /\ [][NextDelivery]_vars

CountRoom(c, id, outcome) ==
    Attached(c, id) =>
        IF axiosPostResolves(outcome)
        THEN subscribers[id].successCount < MaxCount
        ELSE subscribers[id].errorCount < MaxCount

\* Concurrent publishes over shared subscriptions: several deliveries to one
\* subscription are in flight together and settle in any order.
CountHandlers ==
    \/ \E body \in RegisterBodies : RoomFor(body, MaxHealthSubs) /\ Register(body)
    \/ \E id \in SubIds : Delete(id)
    \/ \E c \in CallIds, event \in Events : PublishReceive(c, event)
    \/ \E c \in CallIds : PublishFanout(c)
    \/ \E c \in CallIds, id \in SubIds :
           CountRoom(c, id, answer(200)) /\ NotifyFulfilled(c, id)
    \/ \E c \in CallIds, id \in SubIds :
           CountRoom(c, id, networkError) /\ NotifyRejected(c, id)
    \/ \E c \in CallIds : PublishReturn(c)
    \/ Connect
    \/ Load

NextCount ==
    \/ CountHandlers
    \/ SendResponse

SpecCount == Init /\ [][NextCount]_vars

\* Concurrent publishes with a subscriber that fails until it is deactivated.
\* Every delivery settles (axios.post gives up after 30 s at the latest), the
\* event loop runs every continuation that is ready, and Redis answers.
LiveHandlers ==
    \/ \E body \in RegisterBodies : RoomFor(body, MaxHealthSubs) /\ Register(body)
    \/ \E c \in CallIds, event \in Events : PublishReceive(c, event)
    \/ \E c \in CallIds : PublishFanout(c)
    \/ \E c \in CallIds, id \in SubIds : SuccessRoom(c, id) /\ NotifyFulfilled(c, id)
    \/ \E c \in CallIds, id \in SubIds : NotifyRejected(c, id)
    \/ \E c \in CallIds : PublishReturn(c)
    \/ Connect
    \/ Load

NextLive ==
    \/ LiveHandlers
    \/ SendResponse

\* the steps of the start-up code and of one publish after its acceptance
StartUp == Connect \/ Load

CallStep(c) ==
    \/ PublishFanout(c)
    \/ \E id \in SubIds : SuccessRoom(c, id) /\ NotifyFulfilled(c, id)
    \/ \E id \in SubIds : NotifyRejected(c, id)
    \/ PublishReturn(c)

\* A continuation that is ready again and again is run: the steps of a publish
\* wait only for the response of another handler to have left.
Fairness ==
    /\ SF_vars(StartUp)
    /\ WF_vars(SendResponse)
    /\ \A c \in CallIds : SF_vars(CallStep(c))

SpecLive == Init /\ [][NextLive]_vars /\ Fairness

\* The consumer: webhooks arrive, jobs are queued, taken and processed with
\* every outcome of the CRM fetch and of the push to Databox.
\* The webhook endpoint of the consumer, with every kind of request, and the
\* clock.
SyncHandlers ==
    \/ \E req \in SyncRequests : Len(jobs) < MaxJobs /\ handleWebhook(req, "added")
    \/ Tick

NextSync ==
    \/ SyncHandlers
    \/ SendSyncResponse

SpecSync == Init /\ [][NextSync]_vars

\* The queue of the consumer: jobs for the events the service delivers, the
\* clock, the two processors.
QueueHandlers ==
    \/ \E req \in QueueRequests : Len(jobs) < MaxJobs /\ handleWebhook(req, "added")
    \/ Tick
    \/ \E j \in DOMAIN jobs : Promote(j)
    \/ \E w \in Workers, j \in DOMAIN jobs : Take(w, j)
    \/ \E j \in DOMAIN jobs, crm \in CrmOutcomes, sink \in SinkOutcomes :
           processObjectSync(j, crm, sink)

NextQueue ==
    \/ QueueHandlers
    \/ SendSyncResponse

SpecQueue == Init /\ [][NextQueue]_vars

\* The queue with its scheduling: the clock goes on, and a job that can be
\* promoted, taken or run again and again is promoted, taken or run.
JobStep(j) ==
    /\ j \in DOMAIN jobs
    /\ \/ Promote(j)
       \/ \E w \in Workers : Take(w, j)
       \/ \E crm \in CrmOutcomes, sink \in SinkOutcomes : processObjectSync(j, crm, sink)

QueueFairness ==
    /\ WF_vars(Tick)
    /\ \A j \in 1..MaxJobs : SF_vars(JobStep(j))

SpecQueueLive == Init /\ [][NextQueue]_vars /\ QueueFairness

\* what a delivery to the consumer ends with: its answers, or none
AckOutcomes == { answer(200), answer(401), answer(500), networkError }

\* Deliveries and their acknowledgement: the publisher notifies subscribers
\* with every outcome, the consumer answers webhooks whether or not the queue
\* takes the job.
AddRoom(added) ==
    /\ Len(jobs) < MaxJobs
    /\ added = "rejected" => processingErrors.webhook_error < MaxAddFailures

AckHandlers ==
    \/ \E body \in RegisterBodies : RoomFor(body, MaxHealthSubs) /\ Register(body)
    \/ \E c \in HealthCallIds, event \in Events : PublishReceive(c, event)
    \/ \E c \in HealthCallIds : PublishFanout(c)
    \/ \E c \in HealthCallIds, id \in SubIds, outcome \in AckOutcomes :
           OutcomeRoom(c, id, outcome) /\ Notify(c, id, outcome)
    \/ \E c \in HealthCallIds : PublishReturn(c)
    \/ Connect
    \/ Load
    \/ \E req \in QueueRequests, added \in AddOutcomes :
           AddRoom(added) /\ handleWebhook(req, added)

NextAck ==
    \/ AckHandlers
    \/ SendResponse
    \/ SendSyncResponse

SpecAck == Init /\ [][NextAck]_vars

\* The CRM simulator: companies are created and updated, one at a time and
\* in batches, and the notifications are delivered or lost.
id41 == <<"4","1">>
CompanyIds == { uuids[i] : i \in 1..MaxCompanies } \cup {id41}
BatchInputs ==
    {<< >>} \cup { <<a>> : a \in CompanyIds }
            \cup { <<a, b>> : a \in {id41, id42}, b \in {id42, id43} }

MutationRoom == simulator.mutations < MaxMutations

SimulatorHandlers ==
    \/ \E id \in CompanyIds, outcome \in WebhookOutcomes :
           MutationRoom /\ updateCompany(id, outcome)
    \/ \E outcome \in WebhookOutcomes :
           MutationRoom /\ Len(crmCompanies) < MaxCompanies /\ createCompany(outcome)
    \/ \E inputs \in BatchInputs : MutationRoom /\ batchUpdate(inputs)
    \/ \E outcome \in WebhookOutcomes : MutationRoom /\ batchInput(outcome)
    \/ batchReturn

NextSimulator ==
    \/ SimulatorHandlers
    \/ SendSimulatorResponse

SpecSimulator == Init /\ [][NextSimulator]_vars

\* From the CRM to the sink: the simulator changes companies, the event of
\* the last change is delivered to the consumer, and the consumer's jobs are
\* run with the CRM answering as the simulator does and the sink taking every
\* push.
FlowHandlers ==
    \/ \E id \in CompanyIds : MutationRoom /\ updateCompany(id, "delivered")
    \/ MutationRoom /\ Len(crmCompanies) < MaxCompanies /\ createCompany("delivered")
    \/ /\ simulator.posts > 0
       /\ Len(jobs) < MaxJobs
       /\ handleWebhook(delivered(simulator.event), "added")
    \/ Tick
    \/ \E j \in DOMAIN jobs : Promote(j)
    \/ \E w \in Workers, j \in DOMAIN jobs : Take(w, j)
    \/ \E j \in DOMAIN jobs :
           processObjectSync(j, getCompany(crmCompanies, jobs[j].data.objectType,
                                           jobs[j].data.objectId), "ok")

NextFlow ==
    \/ FlowHandlers
    \/ SendSimulatorResponse
    \/ SendSyncResponse

SpecFlow == Init /\ [][NextFlow]_vars

\* direct-polling with the CRM: runs are started by the cron job and by
\* hand, requests to the CRM and to Databox fail or not, and companies are
\* created and updated while the runs go on.
BatchSizes == {1, 100}

RunRoom == ~poller.isRunning => poller.runs < MaxRuns

PollingHandlers ==
    \/ \E batchSize \in BatchSizes : initialize(batchSize)
    \/ RunRoom /\ cronTick
    \/ RunRoom /\ syncTrigger
    \/ \E outcome \in BatchOutcomes : fetchCompaniesFromHubSpot(outcome)
    \/ \E outcome \in BatchOutcomes : sendCompaniesToDatabox(outcome)
    \/ saveSyncState
    \/ performSync
    \/ \E id \in CompanyIds : MutationRoom /\ updateCompany(id, "delivered")
    \/ MutationRoom /\ Len(crmCompanies) < MaxCompanies /\ createCompany("delivered")
    \/ clock < MaxClock /\ Pass

NextPolling ==
    \/ PollingHandlers
    \/ SendPollerResponse
    \/ SendSimulatorResponse

SpecPolling == Init /\ [][NextPolling]_vars

\* Paging through the list of companies: stores of every size up to
\* MaxCompanies are walked with pages of every size; the store is changed
\* between the walks only, and no request fails.
PageSizes == 1..MaxCompanies \cup {maxLimit}

PagingHandlers ==
    \/ \E batchSize \in PageSizes : initialize(batchSize)
    \/ /\ ~poller.isRunning
       /\ Len(crmCompanies) < MaxCompanies
       /\ createCompany("delivered")
    \/ RunRoom /\ cronTick
    \/ fetchCompaniesFromHubSpot("ok")
    \/ sendCompaniesToDatabox("ok")
    \/ saveSyncState
    \/ performSync

NextPaging ==
    \/ PagingHandlers
    \/ SendSimulatorResponse

SpecPaging == Init /\ [][NextPaging]_vars

\* The consumer's process with the webhook service: the consumer starts, is
\* shut down and crashes, and the webhook service is restarted.
LifeHandlers ==
    \/ nextId < MaxSubs /\ subscribeToWebhooks
    \/ \E outcome \in ShutdownOutcomes : shutdown(outcome)
    \/ crash
    \/ restarts < MaxRestarts /\ Restart
    \/ Connect
    \/ Load

NextLife ==
    \/ LifeHandlers
    \/ SendResponse

SpecLife == Init /\ [][NextLife]_vars

(***************************************************************************)
(* Properties.                                                             *)
(***************************************************************************)
\* the subscriptions a call has started a delivery to
Attempts(call) == { id \in SubIds : call.results[id] # "none" }

\* the step in which call c runs the loop over the subscribers
FanoutStep(c) == calls[c].pc = "stored" /\ calls'[c].pc = "notifying"

\* a delivery to id is started in this step
StartsDelivery(c, id) ==
    calls[c].results[id] # "pending" /\ calls'[c].results[id] = "pending"

\* C1: once a failed delivery has raised a subscription's errorCount above 10
\* its active flag is false, and from then on no publish or replay starts a
\* delivery to that subscription id.
C1_NoDeliveryAfterDeactivation ==
    /\ [][\A id \in DOMAIN subscribers \cap DOMAIN subscribers' :
             (subscribers'[id].errorCount > subscribers[id].errorCount
                 /\ subscribers'[id].errorCount > ErrorThreshold)
                => (~subscribers'[id].active /\ id \in everDeactivated')]_vars
    /\ [][\A c \in CallIds, id \in everDeactivated : ~StartsDelivery(c, id)]_vars

\* C2: the active flag of a subscription id is one-way: an id that has been
\* deactivated is never active again, whatever the service does afterwards.
C2_ActiveOneWay ==
    \A id \in everDeactivated :
        id \in DOMAIN subscribers => ~subscribers[id].active

\* the active subscriptions whose patterns match the event, as the loop of
\* POST /webhook tests them
ActiveMatching(event) ==
    { id \in DOMAIN subscribers :
        subscribers[id].active /\ eventMatch(subscribers[id], event) }

Settled == {"fulfilled", "rejected"}

\* C3: within one publish exactly one delivery is started to each active
\* matching subscriber, in the fan-out loop and never again (no retry), and
\* the settling of one delivery, as a success or as a failure, leaves every
\* other delivery of the publish as it was; the publish returns only when
\* every delivery has settled.
C3_OneAttemptEachIsolated ==
    [][\A c \in CallIds :
        /\ FanoutStep(c) =>
              /\ Attempts(calls'[c]) = ActiveMatching(calls[c].event)
              /\ \A id \in Attempts(calls'[c]) : calls'[c].results[id] = "pending"
        /\ ~FanoutStep(c) => \A id \in SubIds : ~StartsDelivery(c, id)
        /\ \A id \in SubIds :
              (calls[c].results[id] = "pending" /\ calls'[c].results[id] # "pending")
                => /\ calls'[c].results[id] \in Settled
                   /\ \A other \in SubIds \ {id} :
                          calls'[c].results[other] = calls[c].results[other]
        /\ (calls[c].pc = "notifying" /\ calls'[c].pc # "notifying")
              => \A id \in SubIds : calls[c].results[id] # "pending"
      ]_vars

\* C3 witness: in one publish a delivery has failed and another has succeeded
C3_Witness ==
    \E c \in CallIds : \E i, j \in SubIds :
        calls[c].results[i] = "rejected" /\ calls[c].results[j] = "fulfilled"

\* the step in which call c answers
ReturnStep(c) ==
    calls[c].pc = "notifying" /\ calls'[c].pc = "idle" /\ response'.op = "webhook"

\* C4: a publish of a valid event answers 200 whatever its deliveries did,
\* with notificationsSent the number of its deliveries that succeeded and
\* notificationsFailed the number that failed, the two summing to the number
\* of subscribers that were active and matching in its fan-out loop.
C4_PublishReport ==
    /\ [](response.op = "webhook" =>
            \/ response.status = 200
            \/ response.status = 400 /\ ~validPayload(response.event))
    /\ [][\A c \in CallIds :
            /\ FanoutStep(c) => Attempts(calls'[c]) = ActiveMatching(calls[c].event)
            /\ ReturnStep(c) =>
                  /\ response'.status = 200
                  /\ response'.notificationsSent =
                        Cardinality({id \in SubIds : calls[c].results[id] = "fulfilled"})
                  /\ response'.notificationsFailed =
                        Cardinality({id \in SubIds : calls[c].results[id] = "rejected"})
                  /\ response'.notificationsSent + response'.notificationsFailed =
                        Cardinality(Attempts(calls[c]))
       ]_vars

\* C4 witness: three subscribers, one unreachable: the report is 2 / 1
C4_Witness ==
    /\ response.op = "webhook"
    /\ response.status = 200
    /\ response.notificationsSent = 2
    /\ response.notificationsFailed = 1

HasWildcard(subscription) ==
    \E i \in 1..Len(subscription.events) : subscription.events[i] = star

\* C5 as stated: every registered subscription whose patterns include `*` gets
\* a delivery for each valid inbound event.
C5_EveryWildcardSubscription ==
    [][\A c \in CallIds :
        FanoutStep(c) =>
            \A id \in DOMAIN subscribers :
                HasWildcard(subscribers[id]) => StartsDelivery(c, id)
      ]_vars

\* C5 as amended: every subscription that is in the registry and active when
\* the publish runs its fan-out loop and whose patterns include `*` gets exactly
\* one delivery for each valid inbound event; one that is not active gets none.
C5_ActiveWildcardSubscription ==
    [][\A c \in CallIds :
        /\ FanoutStep(c) =>
              /\ validPayload(calls[c].event)
              /\ \A id \in DOMAIN subscribers :
                    HasWildcard(subscribers[id]) =>
                        (StartsDelivery(c, id) <=> subscribers[id].active)
        /\ ~FanoutStep(c) => \A id \in SubIds : ~StartsDelivery(c, id)
      ]_vars

\* C5 witness: of two `*` subscriptions the active one has a delivery in
\* flight, the deactivated one has none
C5_Witness ==
    \E c \in CallIds : \E i, j \in DOMAIN subscribers :
        /\ HasWildcard(subscribers[i]) /\ HasWildcard(subscribers[j])
        /\ subscribers[i].active /\ calls[c].results[i] = "pending"
        /\ ~subscribers[j].active /\ calls[c].results[j] = "none"

\* the lower-cased characters of o are the first characters of p
LoweredPrefixOf(o, p) ==
    Len(o) <= Len(p) /\ \A k \in 1..Len(o) : p[k] = lowerChar(o[k])

\* the match as the specification words it: the pattern is, compared
\* case-insensitively, a prefix of the event's objectType
ClaimedMatch(subscription, event) ==
    \E i \in 1..Len(subscription.events) :
        LET p == subscription.events[i]
            o == event.objectType
        IN  \/ p = star
            \/ p = event.eventType
            \/ /\ Len(p) <= Len(o)
               /\ \A k \in 1..Len(p) : lowerChar(p[k]) = lowerChar(o[k])

\* the match as amended: the pattern, as written, starts with the lower-cased
\* objectType
AmendedMatch(subscription, event) ==
    \E i \in 1..Len(subscription.events) :
        LET p == subscription.events[i]
        IN  \/ p = star
            \/ p = event.eventType
            \/ LoweredPrefixOf(event.objectType, p)

C7_FullTypeMatchesExactly ==
    [][\A c \in CallIds :
        FanoutStep(c) =>
            \A id \in DOMAIN subscribers :
                (subscribers[id].events = <<companyPropertyChange>>
                    /\ calls[c].event.eventType # companyPropertyChange)
                  => ~StartsDelivery(c, id)
      ]_vars

\* o starts with the characters of p
HasPrefix(o, p) == Len(o) >= Len(p) /\ \A k \in 1..Len(p) : o[k] = p[k]

specExampleEvent == Event(companyPropertyChange, company, id42, evt1)

\* C9: for the event {company.propertyChange, company, 42} an active
\* subscription with patterns [company] gets a delivery and one with patterns
\* [contact] gets none.
C9_SpecExample ==
    [][\A c \in CallIds :
        (FanoutStep(c) /\ calls[c].event = specExampleEvent) =>
            \A id \in DOMAIN subscribers :
                subscribers[id].active =>
                    /\ subscribers[id].events = <<company>> => StartsDelivery(c, id)
                    /\ subscribers[id].events = <<contact>> => ~StartsDelivery(c, id)
      ]_vars

\* C9 witness: the event is in its fan-out with a delivery to a [company]
\* subscription and none to a [contact] subscription
C9_Witness ==
    \E c \in CallIds : \E i, j \in DOMAIN subscribers :
        /\ calls[c].pc = "notifying" /\ calls[c].event = specExampleEvent
        /\ subscribers[i].events = <<company>> /\ calls[c].results[i] = "pending"
        /\ subscribers[j].events = <<contact>> /\ calls[c].results[j] = "none"
        /\ subscribers[j].successCount = 0 /\ i > j

\* an event that lacks one of the mandatory fields
Lacking(event) ==
    \/ event.eventType = undefined
    \/ event.objectType = undefined
    \/ event.objectId = undefined

\* C10: an event lacking eventType, objectType or objectId is answered 400
\* and nothing else happens: it is not stored, no delivery is started for it
\* and no subscription changes.
C10_InvalidEventRejected ==
    /\ [](\A c \in CallIds : calls[c].pc # "idle" => ~Lacking(calls[c].event))
    /\ [](\A event \in redisEvents : ~Lacking(event))
    /\ [](response.op = "webhook" /\ Lacking(response.event) => response.status = 400)
    /\ [][(response' # response /\ response'.op = "webhook" /\ response'.status = 400)
            => UNCHANGED <<subscribers, redisSubscriptions, redisEvents, calls,
                           replay, everDeactivated,
                   attempts>>]_vars

\* C10 witness: an event lacking a field has been answered 400 while an active
\* `*` subscription is registered
C10_Witness ==
    /\ response.op = "webhook" /\ response.status = 400 /\ Lacking(response.event)
    /\ \E id \in DOMAIN subscribers :
           subscribers[id].active /\ HasWildcard(subscribers[id])

\* C13: POST /subscriptions answers 400 when url is missing or events is
\* missing, not a list or an empty list, and then adds nothing: no subscription
\* of the registry or of its persisted snapshot lacks a url or has an empty
\* pattern list, and a 400 leaves both as they were.
C13_InvalidRegistrationRejected ==
    /\ [](\A id \in DOMAIN subscribers :
            truthy(subscribers[id].url) /\ subscribers[id].events # <<>>)
    /\ [](\A id \in DOMAIN redisSubscriptions :
            truthy(redisSubscriptions[id].url) /\ redisSubscriptions[id].events # <<>>)
    /\ [][(response' # response /\ response'.op = "register" /\ response'.status = 400)
            => UNCHANGED <<subscribers, redisSubscriptions, nextId>>]_vars

\* the ids that a DELETE has removed: an id is persisted when it is issued and
\* only a DELETE that answers 200 removes a persisted id
Deleted == { id \in 1..nextId : id \notin DOMAIN redisSubscriptions }

\* the step in which DELETE /subscriptions/:id answers
DeleteStep == response' # response /\ response'.op = "delete"

\* C14: DELETE /subscriptions/:id answers 404 and changes nothing when the id
\* is not in the registry; for an id of the registry it answers 200 and removes
\* exactly that id from the registry and from the persisted snapshot, every
\* other subscription staying as it was; a deleted id is never in the registry
\* again, so that a second delete of it answers 404.
C14_DeleteRemovesExactly ==
    /\ [][DeleteStep =>
            LET id == response'.subscriptionId
            IN  IF id \in DOMAIN subscribers
                THEN /\ response'.status = 200
                     /\ subscribers' = Remove(subscribers, id)
                     /\ DOMAIN redisSubscriptions' = DOMAIN redisSubscriptions \ {id}
                     /\ \A other \in DOMAIN redisSubscriptions' :
                            redisSubscriptions'[other] = redisSubscriptions[other]
                ELSE /\ response'.status = 404
                     /\ UNCHANGED <<subscribers, redisSubscriptions>>
          ]_vars
    /\ [](\A id \in Deleted : id \notin DOMAIN subscribers)
    /\ [][DeleteStep /\ response'.subscriptionId \in Deleted
            => response'.status = 404]_vars

\* the delivery of call c to id settles in this step
SettleStep(c, id) ==
    calls[c].results[id] = "pending" /\ calls'[c].results[id] # "pending"

\* the subscriber answered with a status below 500
DeliveredOutcome(o) == o.kind = "response" /\ o.status < 500

\* a network error, a timeout or a 5xx answer
FailedOutcome(o) ==
    \/ o.kind \in {"error", "timeout"}
    \/ o.kind = "response" /\ o.status >= 500

\* C15: a delivery to a subscription of the registry counts as delivered
\* (successCount + 1, lastNotified set, errorCount unchanged) iff the
\* subscriber answers with a status below 500, 4xx included, and as failed
\* (errorCount + 1, successCount and lastNotified unchanged) iff there is a
\* network error, a timeout or a 5xx answer.
C15_DeliveredBelow500 ==
    [][\A c \in CallIds, id \in SubIds :
        (SettleStep(c, id) /\ Attached(c, id)) =>
            LET o == calls'[c].outcomes[id]
                before == subscribers[id]
                after == subscribers'[id]
            IN  /\ DeliveredOutcome(o) <=>
                      /\ after.successCount = before.successCount + 1
                      /\ after.lastNotified
                      /\ after.errorCount = before.errorCount
                /\ FailedOutcome(o) <=>
                      /\ after.errorCount = before.errorCount + 1
                      /\ after.successCount = before.successCount
                      /\ after.lastNotified = before.lastNotified
                /\ DeliveredOutcome(o) <=> calls'[c].results[id] = "fulfilled"
                /\ FailedOutcome(o) <=> calls'[c].results[id] = "rejected"
      ]_vars

\* C15 witness: in one publish a 404 answer has counted as delivered and a 503
\* answer as failed
C15_Witness ==
    \E c \in CallIds : \E i, j \in DOMAIN subscribers :
        /\ calls[c].outcomes[i] = answer(404) /\ calls[c].results[i] = "fulfilled"
        /\ subscribers[i].successCount = 1 /\ subscribers[i].errorCount = 0
        /\ calls[c].outcomes[j] = answer(503) /\ calls[c].results[j] = "rejected"
        /\ subscribers[j].errorCount = 1 /\ subscribers[j].successCount = 0

\* C16: whatever the interleaving of concurrent publishes, the errorCount of
\* every subscription of the registry is the number of deliveries to it that
\* failed and its successCount the number that were delivered.
C16_CountersExact ==
    \A id \in DOMAIN subscribers :
        /\ subscribers[id].errorCount = attempts.failed[id]
        /\ subscribers[id].successCount = attempts.delivered[id]

\* C16 witness: two publishes are open at the same time and the delivery of
\* each to one shared subscription has failed
C16_Witness ==
    \E id \in DOMAIN subscribers :
        /\ subscribers[id].errorCount = 2
        /\ \A c \in CallIds :
               calls[c].pc = "notifying" /\ calls[c].results[id] = "rejected"

\* C17: every publish that has been accepted returns: its deliveries all
\* settle and then it answers, whatever the other publishes do and also when
\* a subscriber is deactivated while deliveries to it are in flight.
C17_PublishReturns ==
    \A c \in CallIds : (calls[c].pc # "idle") ~> (calls[c].pc = "idle")

\* C17 witness: a subscription has been deactivated by one publish while the
\* delivery of another publish to it is still in flight
C17_Witness ==
    \E c \in CallIds : \E id \in DOMAIN subscribers :
        /\ ~subscribers[id].active
        /\ calls[c].results[id] = "pending"

\* the step in which POST /replay/:eventId answers
ReplayAnswer == response' # response /\ response'.op = "replay"

\* the events recorded under an id and not expired
Recorded(eventId) == { e \in redisEvents : e.eventId = eventId }

\* C18: replaying the id of an event that is recorded and has not expired
\* publishes that event again: the answer is a delivery report (200) over
\* exactly the subscriptions the event matches.
C18_ReplayRepublishes ==
    [][(ReplayAnswer /\ replay.keys \subseteq redisEvents
            /\ Recorded(response'.event.eventId) # {})
          => /\ response'.status = 200
             /\ \E e \in Recorded(response'.event.eventId) :
                    response'.notificationsSent + response'.notificationsFailed
                        = Cardinality(ActiveMatching(e))
      ]_vars

\* C19: replaying an id under which no event is recorded, because none was
\* published or because its record has expired, answers 404, starts no
\* delivery and changes no subscription.
C19_ReplayUnknownNotFound ==
    [][(ReplayAnswer /\ Recorded(response'.event.eventId) = {})
          => /\ response'.status = 404
             /\ UNCHANGED <<subscribers, calls, attempts>>
      ]_vars

\* an event with its eventType, objectType and objectId all present
Complete(event) ==
    truthy(event.eventType) /\ truthy(event.objectType) /\ truthy(event.objectId)

\* C11: the consumer's webhook endpoint queues a job only for an event that
\* has eventType, objectType and objectId; an event lacking one of them is
\* rejected: every job of the queue carries all three.
C11_OnlyCompleteEventsQueued ==
    \A j \in DOMAIN jobs : Complete(jobs[j].data)

\* the step in which the consumer answers a webhook
SyncAnswer == syncResponse' # syncResponse /\ syncResponse' # NoSyncResponse

\* C12: the consumer's webhook endpoint accepts a payload only when its
\* signature header is `v1=` and the HMAC of the body under the configured
\* secret: a payload with no or another signature is answered 401 and no job
\* is queued for it.
C12_SignatureRequired ==
    [][SyncAnswer =>
          IF syncResponse'.signed
          THEN syncResponse'.status # 401
          ELSE syncResponse'.status = 401 /\ UNCHANGED jobs
      ]_vars

\* the start-up code has handled the answer to hGetAll
LoadStep == phase = "loading" /\ phase' = "ready"

C29_NoServiceWithoutStore ==
    phase = "connecting" =>
        /\ subscribers = << >>
        /\ \A c \in CallIds : calls[c].pc = "idle"

\* C30: a subscription of the registry is active exactly when its errorCount
\* is at most 10.
C30_ActiveIffFewErrors ==
    \A id \in DOMAIN subscribers :
        subscribers[id].active <=> subscribers[id].errorCount <= ErrorThreshold

\* C30 witness: after a restart, which has loaded the subscriptions as they
\* were registered, a subscription is inactive with errorCount 11
C30_Witness ==
    /\ restarts >= 1
    /\ \E id \in DOMAIN subscribers :
           ~subscribers[id].active /\ subscribers[id].errorCount = ErrorThreshold + 1

\* the states of a job of the queue; Done and Failed are the last two
JobStates == {"delayed", "waiting", "active", "completed", "failed"}
Finished == {"completed", "failed"}

\* C21: every job of the queue is eventually completed or failed; no step
\* takes a job out of the queue or changes its data; a job becomes completed
\* only in an attempt whose push the sink accepted or whose fetch the CRM
\* answered with 404, and failed only when its attempts are used up.
C21_JobsSettle ==
    /\ \A j \in 1..MaxJobs :
           (j \in DOMAIN jobs) ~> (j \in DOMAIN jobs /\ jobs[j].state \in Finished)
    /\ [][\A j \in DOMAIN jobs :
            /\ j \in DOMAIN jobs'
            /\ jobs'[j].data = jobs[j].data
            /\ jobs'[j].state \in JobStates
            /\ (jobs[j].state # "completed" /\ jobs'[j].state = "completed") =>
                   (jobs'[j].sink = "ok" \/ jobs'[j].fetch = "notFound")
            /\ (jobs[j].state # "failed" /\ jobs'[j].state = "failed") =>
                   jobs'[j].attemptsMade = jobs[j].opts.attempts]_vars

\* C21 witness: one job is completed and another has failed
C21_Witness ==
    \E j, k \in DOMAIN jobs :
        jobs[j].state = "completed" /\ jobs[k].state = "failed"

\* a processor takes job j; the attempt of job j throws
TakeStep(j) == jobs[j].state = "waiting" /\ jobs'[j].state = "active"
FailStep(j) ==
    jobs[j].state = "active" /\ jobs'[j].attemptsMade = jobs[j].attemptsMade + 1

\* C22: a processor takes a job only after the job has been kept back for
\* the processing delay (1000 ms) since it was added.
C22_NotBeforeDelay ==
    [][\A j \in DOMAIN jobs :
          TakeStep(j) => jobs[j].waited >= processingDelay]_vars

\* C22 witness: a job runs its first attempt, taken after exactly the delay
C22_Witness ==
    \E j \in DOMAIN jobs :
        /\ jobs[j].state = "active"
        /\ jobs[j].attemptsMade = 0
        /\ jobs[j].waited = processingDelay

\* C23: the k-th failed attempt of a job leaves it, for k below max attempts,
\* pending with attempt count k, and failed for k equal to max attempts; a
\* job with k failed attempts is taken again only after it has been kept
\* back for 2000 ms times 2^(k-1).
C23_Backoff ==
    /\ [][\A j \in DOMAIN jobs :
            FailStep(j) =>
                IF jobs[j].attemptsMade + 1 < maxRetries
                THEN /\ jobs'[j].state = "delayed"
                     /\ jobs'[j].attemptsMade = jobs[j].attemptsMade + 1
                     /\ jobs'[j].delay > 0
                ELSE /\ jobs'[j].state = "failed"
                     /\ jobs'[j].attemptsMade = maxRetries]_vars
    /\ [][\A j \in DOMAIN jobs :
            (TakeStep(j) /\ jobs[j].attemptsMade >= 1) =>
                jobs[j].waited >= backoffDelay * 2 ^ (jobs[j].attemptsMade - 1)]_vars

\* C23 witness: a job runs its third attempt, taken after the second backoff
C23_Witness ==
    \E j \in DOMAIN jobs :
        /\ jobs[j].state = "active"
        /\ jobs[j].attemptsMade = 2
        /\ jobs[j].waited >= 2 * backoffDelay

\* the attempt of job j has come to its end
RunStep(j) == jobs[j].state = "active" /\ jobs'[j].state # "active"

\* C24: an attempt whose fetch the CRM answers with 404 completes the job: it
\* makes no push, counts no error and no failed attempt, and a completed job
\* is never run or changed again.
C24_NotFoundIsDone ==
    /\ [][\A j \in DOMAIN jobs :
            (RunStep(j) /\ jobs'[j].fetch = "notFound") =>
                /\ jobs'[j].state = "completed"
                /\ jobs'[j].sink = "none"
                /\ jobs'[j].attemptsMade = jobs[j].attemptsMade
                /\ processingErrors' = processingErrors]_vars
    /\ [][\A j \in DOMAIN jobs :
            jobs[j].state = "completed" => jobs'[j] = jobs[j]]_vars

\* C24 witness: a job is completed by an attempt whose fetch was answered 404
C24_Witness ==
    \E j \in DOMAIN jobs :
        /\ jobs[j].state = "completed"
        /\ jobs[j].fetch = "notFound"
        /\ jobs[j].runs >= 1

\* a property set that is present and lacks properties of the object
Partial(properties) == truthy(properties) /\ properties # companyProperties

\* C25: the record of a push is built from the object fetched from the CRM
\* whenever the event of the job is a creation or carries no or only a
\* partial property set.
C25_FetchBeforeTransform ==
    \A j \in DOMAIN jobs :
        (/\ jobs[j].sink # "none"
         /\ \/ includes(jobs[j].data.eventType, creation)
            \/ ~truthy(jobs[j].data.properties)
            \/ Partial(jobs[j].data.properties))
            => jobs[j].fetch = "found"

\* C26: a job whose push the sink has answered with 401 makes no further
\* push.
C26_UnauthorizedNotRetried ==
    [][\A j \in DOMAIN jobs :
          jobs[j].sink = "unauthorized" =>
              ~(RunStep(j) /\ jobs'[j].sink # "none")]_vars

C32_OneSubscriptionPerConsumer ==
    Cardinality({ id \in DOMAIN subscribers :
                    subscribers[id].url = webhookSyncUrl }) <= 1

C31_AckAfterAdd ==
    [][/\ SyncAnswer =>
             LET status == syncResponse'.status
             IN  /\ status \in 200..299 =>
                        /\ Len(jobs') = Len(jobs) + 1
                        /\ SubSeq(jobs', 1, Len(jobs)) = jobs
                        /\ jobs'[Len(jobs')].runs = 0
                 /\ jobs' = jobs =>
                        /\ status = 500
                        /\ processingErrors'.webhook_error
                               = processingErrors.webhook_error + 1
       /\ \A c \in CallIds, id \in SubIds :
             (SettleStep(c, id) /\ Attached(c, id)
                 /\ calls'[c].outcomes[id] = answer(500)) =>
                   /\ calls'[c].results[id] = "rejected"
                   /\ subscribers'[id].errorCount = subscribers[id].errorCount + 1
                   /\ subscribers'[id].successCount = subscribers[id].successCount
      ]_vars

\* C31 witness: the queue has refused a webhook, the consumer has answered
\* 500 with nothing queued, and a delivery answered 500 has been counted as
\* failed
C31_Witness ==
    /\ syncResponse.status = 500
    /\ jobs = << >>
    /\ processingErrors.webhook_error = 1
    /\ \E c \in CallIds, id \in DOMAIN subscribers :
          /\ id \in DOMAIN calls[c].outcomes
          /\ calls[c].outcomes[id] = answer(500)
          /\ calls[c].results[id] = "rejected"
          /\ subscribers[id].errorCount = 1

\* C34: a job for a company.creation event of the simulator, for a company
\* of the CRM store, that has run to its end with CRM and sink reachable, has
\* fetched the company and pushed a record for it.
C34_CreationFetchedAndPushed ==
    \A j \in DOMAIN jobs :
        (/\ jobs[j].state = "completed"
         /\ jobs[j].data.eventType = companyCreation
         /\ findIndex(crmCompanies, jobs[j].data.objectId) # -1) =>
            /\ jobs[j].fetch = "found"
            /\ jobs[j].sink = "ok"

\* the record a job has pushed for an event that carries its properties
pushedRecord(job) ==
    convertToDataboxFormat(job.data.objectType, eventObject(job.data))

\* C35: the record pushed for a company.propertyChange event of the simulator
\* carries the company mapping: $companies_updated = 1, company_name and
\* industry from the properties of the event, and besides them only date,
\* objectId, objectType and $company_age.
C35_CompanyMapping ==
    \A j \in DOMAIN jobs :
        (/\ jobs[j].data.eventType = companyPropertyChange
         /\ jobs[j].sink = "ok") =>
            LET record == pushedRecord(jobs[j])
            IN  /\ {"$companies_updated", "company_name", "industry"}
                       \subseteq DOMAIN record
                /\ record["$companies_updated"] = 1
                /\ record["company_name"] = nameProperty
                /\ record["industry"] = industryProperty
                /\ DOMAIN record \subseteq
                       {"date", "objectId", "objectType", "$company_age",
                        "$companies_updated", "company_name", "industry"}

\* a step of the simulator that changes the store of companies
MutationStep == crmCompanies' # crmCompanies

\* the company the step has created or updated
Mutated(i) ==
    IF i > Len(crmCompanies)
    THEN crmCompanies'[i].version = 0
    ELSE /\ crmCompanies'[i].id = crmCompanies[i].id
         /\ crmCompanies'[i].version = crmCompanies[i].version + 1

\* C36: a step of the CRM simulator that creates or updates a company (a
\* create, an update, a round of a batch update) changes that one company and
\* posts exactly one event, naming it, to the webhook URL, and no other step
\* posts one; when the post fails the request is answered as when it succeeds
\* (the batch goes on) and no step takes a change back.
C36_OneEventPerMutation ==
    [][/\ MutationStep =>
             /\ simulator'.posts = simulator.posts + 1
             /\ \E i \in 1..Len(crmCompanies') :
                   /\ Mutated(i)
                   /\ \A k \in 1..Len(crmCompanies) :
                         k # i => crmCompanies'[k] = crmCompanies[k]
                   /\ simulator'.event.objectId = crmCompanies'[i].id
                   /\ simulator'.event.eventType =
                         IF i > Len(crmCompanies)
                         THEN companyCreation ELSE companyPropertyChange
             /\ simulator'.status \in {200, 201} \/ simulator'.inBatch
       /\ ~MutationStep => simulator'.posts = simulator.posts
       /\ Len(crmCompanies') >= Len(crmCompanies)
       /\ \A k \in 1..Len(crmCompanies) :
             /\ crmCompanies'[k].id = crmCompanies[k].id
             /\ crmCompanies'[k].version >= crmCompanies[k].version
      ]_vars

\* C36 witness: three changes, one of them in a batch that is still running,
\* have posted three events, and two of the posts have failed
C36_Witness ==
    /\ simulator.posts = 3
    /\ simulator.lost = 2
    /\ simulator.inBatch
    /\ Len(crmCompanies) = 2
    /\ crmCompanies[1].version = 2

\* C37: in direct-polling at most one run is in progress, and isRunning is
\* true exactly while one is: no step taken while isRunning is true starts a
\* run, a POST /sync/trigger answered then is answered 409, and when a run
\* ends, saved or failed, isRunning is false.
C37_OneRunAtATime ==
    [][/\ poller'.active <= 1
       /\ poller'.isRunning <=> poller'.active = 1
       /\ poller.isRunning =>
             /\ poller'.runs = poller.runs
             /\ (poller.status = 0 /\ poller'.status # 0) => poller'.status = 409
       /\ poller'.active < poller.active =>
             /\ poller.run.pc \in {"saved", "failed"}
             /\ ~poller'.isRunning
      ]_vars

\* C37 witness: a first run has ended, and a trigger that came while the
\* second was fetching has been answered 409
C37_Witness ==
    /\ poller.runs = 2
    /\ poller.isRunning
    /\ poller.active = 1
    /\ poller.run.pc = "fetching"
    /\ poller.run.lastState.lastSyncTime # null
    /\ poller.status = 409

\* a run of direct-polling saves its sync state
SaveStep == poller.run.pc = "saving" /\ poller'.run.pc = "saved"

\* C38: a company that was updated while a run of direct-polling was in
\* progress, after the run had fetched its page and before it saved its
\* state, has been pushed as updated when the next run saves its state.
C38_NoUpdateMissed ==
    [][SaveStep =>
          \A id \in DOMAIN poller.owed :
              /\ id \in DOMAIN poller'.pushed
              /\ poller'.pushed[id] >= poller.owed[id]]_vars

\* C39: the sync state of direct-polling changes only in the step that ends
\* a run whose fetches and pushes have all succeeded and whose last page had
\* no successor: after a failed fetch or push lastSyncTime and totalProcessed
\* are what they were, and the next run reads them.
C39_StateSavedOnlyAfterFullRun ==
    [][/\ poller'.lastSyncState # poller.lastSyncState =>
             /\ SaveStep
             /\ ~poller.run.threw
             /\ poller.run.page = << >>
             /\ ~poller.run.hasMore \/ poller.run.visited = << >>
             /\ poller'.lastSyncState.totalProcessed =
                    poller.lastSyncState.totalProcessed + poller.run.processed
       /\ poller'.run.threw =>
             /\ poller'.run.pc = "failed"
             /\ poller'.lastSyncState = poller.lastSyncState
       /\ poller'.run.pc = "fetching" =>
             poller'.run.lastState = poller'.lastSyncState
      ]_vars

\* C39 witness: a run has saved its state, the next has pushed a page and
\* then failed, and the state is the one the first run saved
C39_Witness ==
    /\ poller.runs = 2
    /\ poller.run.pc = "failed"
    /\ poller.run.processed > 0
    /\ poller.run.lastState.lastSyncTime # null
    /\ poller.lastSyncState = poller.run.lastState

\* C40: when a walk through the list of companies has followed
\* paging.next.after from the first page until a page had no successor, and
\* the store was not changed meanwhile, the companies of the pages are the
\* companies of the store, each once and in the order of the store, whatever
\* the limit.
C40_PagingVisitsEachOnce ==
    poller.run.pc = "saving" => poller.run.visited = crmCompanies

\* C40 witness: a store of three companies has been walked in pages of two
C40_Witness ==
    /\ poller.run.pc = "saving"
    /\ poller.batchSize = 2
    /\ Len(crmCompanies) = 3
    /\ Len(poller.run.visited) = 3

\* C20: the attempts and the runs of a job never exceed max attempts (3); a
\* job is failed only after max attempts runs that all failed, it is then
\* never run or changed again, and the error metric has counted its failure.
C20_AttemptsBounded ==
    /\ [](\A j \in DOMAIN jobs :
            /\ jobs[j].attemptsMade <= maxRetries
            /\ jobs[j].runs <= maxRetries
            /\ jobs[j].state = "failed" =>
                  /\ jobs[j].attemptsMade = maxRetries
                  /\ jobs[j].runs = maxRetries)
    /\ [](Cardinality({j \in DOMAIN jobs : jobs[j].state = "failed"})
              <= processingErrors.job_failure)
    /\ [][\A j \in DOMAIN jobs :
            jobs[j].state = "failed" => jobs'[j] = jobs[j]]_vars

\* C20 witness: a job has failed after three runs, and the metric shows it
C20_Witness ==
    \E j \in DOMAIN jobs :
        /\ jobs[j].state = "failed"
        /\ jobs[j].runs = 3
        /\ processingErrors.job_failure >= 3

====
